---- MODULE Spec2Model ----
(***************************************************************************)
(* A model of the peer-to-peer MessageServer of pkg/p2p/server.go: the     *)
(* core task loop (run), the peer registry with epoch arbitration, the     *)
(* pending buffer, the handler wrapper with its sequence checks, the ack   *)
(* table and the tick, together with the per-stream receive and send       *)
(* tasks that feed the task queue and drain the send channels.             *)
(***************************************************************************)
EXTENDS Integers, Sequences, FiniteSets, TLC

\* ------------------------------------------------------------------ bounds
NumStreams == 3         \* streams (stream handles) opened in one behaviour
AckStreams == 1         \* streams opened under Spec
MaxRecv == 3            \* packets the clients send in one behaviour
MaxEpoch == 2           \* epochs a client advertises are 1..MaxEpoch
MaxSeq == 3             \* sequences a client sends are 1..MaxSeq
MaxHandles == 2         \* pool handles created by AddHandler in one behaviour
MaxPoolQueue == 2       \* events a pool handle queues before AddEvent blocks
LiveRecv == 2           \* packets the client sends under LiveSpec
LiveSeq == 2            \* sequences the client sends under LiveSpec are 1..LiveSeq
MaxDone == 2            \* done channels RemoveHandler hands out in one behaviour
MaxLocal == 4           \* entries the local channel delivers in one behaviour
LocalBatchMax == 2      \* entries at which receiveLocalMessage flushes (1024 in the code)


initAck == 0

Nodes == {"p1", "p2", "p3"}
\* the server's own ID, and the sender IDs of pending messages: the peers and,
\* for local messages, the server itself
serverID == "s0"
Senders == Nodes \cup {serverID}
Topics == {"t1", "t2"}
Streams == 1..NumStreams
Handles == 1..MaxHandles
Epochs == 1..MaxEpoch
Seqs == 1..MaxSeq
Dones == 1..MaxDone

VARIABLES
    config,      \* m.config, the MessageServerConfig: read only
    running,     \* TRUE while MessageServer.run loops; FALSE once it returned
    fault,       \* "none", or the log.Panic that stopped the process
    taskErr,     \* the error of the task processed last (nil for most tasks)
    taskQueue,   \* m.taskQueue: the tasks not yet taken by run
    peers,       \* m.peers: sender -> stream handle of its cdcPeer, 0 = absent
    peerObj,     \* the cdcPeer created for a stream: "none", "valid", "invalid"
    handlers,    \* m.handlers: topic -> pool handle, 0 = absent
    pending,     \* m.pendingMessages: <<topic, sender>> -> buffered entries
    acks,        \* m.acks: sender -> topic -> last acknowledged sequence
    stMeta,      \* the StreamMeta of each stream handle
    stPc,        \* where the receive task of each stream is
    isClosed,    \* streamHandle.isClosed
    sendCh,      \* the send channel of each stream handle
    hTopic,      \* the topic a pool handle was created for
    hStatus,     \* "unused", "running", "draining", "failed", "stopped"
    hQueue,      \* the events a pool handle has not processed yet
    hPc,         \* where the wrapper is in the event it processes
    hCur,        \* the event being processed and the lastAck read for it
    hErr,        \* the error a handle's handler returned (its ErrCh)
    nextHandle,  \* the next handle RegisterEvent returns
    hDone,       \* the done channel the goroutine that unregisters a handle
                 \* has still to close, 0 = none
    apiErr,      \* the error the call of the API made last returned
    doneCh,      \* the done channels of RemoveHandler: "none", "open", "closed"
    addDone,     \* the done channel AddHandler made for a handle: "none",
                 \* "open", "closed"
    isRunning,   \* m.isRunning: 1 while Run has not returned
    closeCh,     \* m.closeCh: "open", "closed"
    syncPc,      \* the caller of SyncAddHandler or SyncRemoveHandler: "idle",
                 \* "waitAdd", "waitRemove", "returned"
    syncWait,    \* the handle (waitAdd) or done channel (waitRemove) it waits for
    syncErr,     \* the error its call returned
    localCh,     \* the local channel given to Run: "open", "closed"
    batchRawMessages, \* receiveLocalMessage: the entries read and not yet flushed
    localPc,     \* receiveLocalMessage: "run", "returned"
    localErr,    \* the error receiveLocalMessage returned
    nLocal,      \* history: the entries read from the local channel so far
    streamSent,  \* the responses SendMessage wrote to a stream itself
    repeated,    \* the metric serverRepeatedMessageCount
    nRecv,       \* history: the packets received from clients so far
    sentUpTo,    \* history: sender -> topic -> N when the sequences received
                 \* from it were exactly 1, 2, ..., N in this order, else -1
    cbInvoked,   \* history: sender -> topic -> how often fn was invoked
    cbOk,        \* history: sender -> topic -> the sequences fn returned nil for
    rpcPc,       \* the call of SendMessage for a stream: "none", "called",
                 \* "returned"
    sendPc,      \* the send goroutine of a stream: "run", "exited"
    streamCtx    \* ctx of SendMessage: "live", "cancelled" by cancel(), or
                 \* "broken": the transport has ended stream.Context()

loopVars == <<running, fault, taskErr>>
regVars == <<peers, peerObj, handlers, pending>>
streamVars == <<stMeta, stPc, isClosed>>
poolVars == <<hTopic, hStatus, hQueue, hPc, hCur, hErr, nextHandle, hDone, addDone>>
syncVars == <<isRunning, closeCh, syncPc, syncWait, syncErr>>
localVars == <<localCh, batchRawMessages, localPc, localErr, nLocal>>
histVars == <<nRecv, sentUpTo, cbInvoked, cbOk>>
rpcVars == <<rpcPc, sendPc, streamCtx>>
vars == <<config, loopVars, taskQueue, regVars, acks, streamVars, sendCh, poolVars,
          apiErr, doneCh, syncVars, localVars, streamSent, repeated, histVars,
          rpcVars>>

\* ------------------------------------------------------------------ errors
Err(kind, topic, a, b) == [kind |-> kind, topic |-> topic, a |-> a, b |-> b]
NoErr == Err("nil", "", 0, 0)
IsErr(e) == e.kind # "nil"

ErrStaleConnection(old, new) == Err("StaleConnection", "", old, new)
ErrDuplicateConnection(epoch) == Err("DuplicateConnection", "", epoch, 0)
ErrTooManyPeers(count) == Err("TooManyPeers", "", count, 0)
ErrTopicCongested == Err("TopicCongested", "", 0, 0)
ErrDataLost(topic, seq) == Err("DataLost", topic, seq, 0)
ErrInternalSenderClosed == Err("InternalSenderClosed", "", 0, 0)
ErrHandleCancelled == Err("HandleCancelled", "", 0, 0)
ErrDecode == Err("DecodeError", "", 0, 0)
ErrCallback == Err("HandlerError", "", 0, 0)
ErrRecv == Err("RecvError", "", 0, 0)
ErrTaskQueueCongested == Err("TaskQueueCongested", "", 0, 0)
ErrIllegalMeta == Err("IllegalMeta", "", 0, 0)
\* the two arguments of the message, expected and actual receiver, are kept
\* in the text field
ErrReceiverMismatch(expected, actual) ==
    Err("ReceiverMismatch", expected \o "/" \o actual, 0, 0)
ErrServerClosed == Err("ServerClosed", "", 0, 0)

\* a mutant of errorToRPCResponse: ErrDuplicateConnection is answered like
\* ErrStaleConnection
errorToRPCResponseDuplicateAsStale(err) ==
    IF err.kind \in {"TopicCongested", "TaskQueueCongested"}
    THEN [exit |-> "CONGESTED", err |-> err, acks |-> {}]
    ELSE IF err.kind \in {"StaleConnection", "DuplicateConnection"}
    THEN [exit |-> "STALE_CONNECTION", err |-> err, acks |-> {}]
    ELSE IF err.kind = "ReceiverMismatch"
    THEN [exit |-> "CAPTURE_ID_MISMATCH", err |-> err, acks |-> {}]
    ELSE [exit |-> "UNKNOWN", err |-> err, acks |-> {}]

errorToRPCResponse(err) ==
    IF err.kind \in {"TopicCongested", "TaskQueueCongested"}
    THEN [exit |-> "CONGESTED", err |-> err, acks |-> {}]
    ELSE IF err.kind = "StaleConnection"
    THEN [exit |-> "STALE_CONNECTION", err |-> err, acks |-> {}]
    ELSE IF err.kind = "ReceiverMismatch"
    THEN [exit |-> "CAPTURE_ID_MISMATCH", err |-> err, acks |-> {}]
    ELSE [exit |-> "UNKNOWN", err |-> err, acks |-> {}]

AckResponse(as) == [exit |-> "OK", err |-> NoErr, acks |-> as]

\* ------------------------------------------------------------- task records
NoMeta == [sender |-> "", epoch |-> 0]
Task(type, h, meta, topic, entries, hd, done) ==
    [type |-> type, h |-> h, meta |-> meta, topic |-> topic,
     entries |-> entries, hd |-> hd, done |-> done, rawMessageEntries |-> <<>>]
taskOnRegisterPeer(h) == Task("OnRegisterPeer", h, NoMeta, "", <<>>, 0, 0)
taskOnMessageBatch(meta, entries) == Task("OnMessageBatch", 0, meta, "", entries, 0, 0)
taskOnRegisterHandler(topic, hd) ==
    Task("OnRegisterHandler", 0, NoMeta, topic, <<>>, hd, 0)
\* done is the done channel of the task, 0 when the task has none (nil)
taskOnDeregisterHandler(topic, done) ==
    Task("OnDeregisterHandler", 0, NoMeta, topic, <<>>, 0, done)
taskOnDeregisterPeer(peerID) ==
    Task("OnDeregisterPeer", 0, [sender |-> peerID, epoch |-> 0], "", <<>>, 0, 0)

Entry(topic, seq) == [topic |-> topic, seq |-> seq]
PoolEvent(meta, entry) == [meta |-> meta, entry |-> entry]
\* a RawMessageEntry: its value is the number of the entry in the order the
\* local channel delivered it; as a pending entry or a pool event it has no
\* StreamMeta
RawMessageEntry(topic, value) == PoolEvent(NoMeta, Entry(topic, value))
\* the batch receiveLocalMessage schedules
taskOnLocalBatch(rawMessageEntries) ==
    [Task("OnMessageBatch", 0, NoMeta, "", <<>>, 0, 0)
        EXCEPT !.rawMessageEntries = rawMessageEntries]
NoEvent == [meta |-> NoMeta, entry |-> Entry("", 0), lastAck |-> 0]

\* ------------------------------------------- the state the task loop owns
St == [peers |-> peers, peerObj |-> peerObj, handlers |-> handlers,
       pending |-> pending, sendCh |-> sendCh, hStatus |-> hStatus,
       hQueue |-> hQueue, hDone |-> hDone, doneCh |-> doneCh, addDone |-> addDone,
       fault |-> fault,
       blocked |-> FALSE, err |-> NoErr,
       stop |-> FALSE, gone |-> {}]

PeerEpoch(h) == stMeta[h].epoch
PeerID(h) == stMeta[h].sender
PeerCount(S) == Cardinality({n \in Nodes : S.peers[n] # 0})

\* streamHandle.Send: fails on a closed handle, else enqueues on the bounded
\* send channel, waiting while it is full.
Send(S, h, resp) ==
    IF isClosed[h] THEN [S EXCEPT !.err = ErrInternalSenderClosed]
    ELSE IF Len(S.sendCh[h]) >= config.SendChannelSize
    THEN [S EXCEPT !.blocked = TRUE, !.err = NoErr]
    ELSE [S EXCEPT !.sendCh[h] = Append(@, resp), !.err = NoErr]

\* a mutant of abort: the peer is not marked invalid
abortKeepingValid(S, h, err) ==
    IF S.peerObj[h] # "valid" THEN [S EXCEPT !.fault = "aborting invalid peer"]
    ELSE [Send(S, h, errorToRPCResponse(err)) EXCEPT !.err = NoErr]

\* cdcPeer.abort
abort(S, h, err) ==
    IF S.peerObj[h] # "valid" THEN [S EXCEPT !.fault = "aborting invalid peer"]
    ELSE LET R == Send(S, h, errorToRPCResponse(err))
         IN [R EXCEPT !.peerObj[h] = "invalid", !.err = NoErr]

\* a mutant of deregisterPeer: the entry is not deleted from m.peers
deregisterPeerKeepingEntry(S, h, err) ==
    IF IsErr(err) THEN abort(S, h, err) ELSE S

\* MessageServer.deregisterPeer
deregisterPeer(S, h, err) ==
    LET R == [S EXCEPT !.peers[PeerID(h)] = 0]
    IN IF IsErr(err) THEN abort(R, h, err) ELSE R

\* MessageServer.deregisterPeerByID
deregisterPeerByID(S, peerID) ==
    IF S.peers[peerID] = 0 THEN S ELSE deregisterPeer(S, S.peers[peerID], NoErr)

\* newCDCPeer, stored in m.peers
installPeer(S, h) == [S EXCEPT !.peers[PeerID(h)] = h, !.peerObj[h] = "valid"]

\* a mutant of registerPeer: a connection with the epoch of the existing peer
\* replaces it
registerPeerReplacingDuplicate(S, h) ==
    LET old == S.peers[PeerID(h)] IN
    IF old = 0
    THEN IF PeerCount(S) > config.MaxPeerCount
         THEN [S EXCEPT !.err = ErrTooManyPeers(PeerCount(S))]
         ELSE [installPeer(S, h) EXCEPT !.err = NoErr]
    ELSE IF PeerEpoch(old) > PeerEpoch(h)
    THEN [S EXCEPT !.err = ErrStaleConnection(PeerEpoch(h), PeerEpoch(old))]
    ELSE LET R == deregisterPeer(S, old,
                      ErrStaleConnection(PeerEpoch(old), PeerEpoch(h)))
         IN [installPeer(R, h) EXCEPT !.err = NoErr]

\* MessageServer.registerPeer
registerPeer(S, h) ==
    LET old == S.peers[PeerID(h)] IN
    IF old = 0
    THEN IF PeerCount(S) > config.MaxPeerCount
         THEN [S EXCEPT !.err = ErrTooManyPeers(PeerCount(S))]
         ELSE [installPeer(S, h) EXCEPT !.err = NoErr]
    ELSE IF PeerEpoch(old) > PeerEpoch(h)
    THEN [S EXCEPT !.err = ErrStaleConnection(PeerEpoch(h), PeerEpoch(old))]
    ELSE IF PeerEpoch(old) < PeerEpoch(h)
    THEN LET R == deregisterPeer(S, old,
                      ErrStaleConnection(PeerEpoch(old), PeerEpoch(h)))
         IN [installPeer(R, h) EXCEPT !.err = NoErr]
    ELSE [S EXCEPT !.err = ErrDuplicateConnection(PeerEpoch(h))]

\* EventHandle.AddEvent: refused once the handle no longer runs, else queued,
\* waiting while the handle's queue is full.
AddEvent(S, hd, ev) ==
    IF S.hStatus[hd] # "running" THEN [S EXCEPT !.err = ErrHandleCancelled]
    ELSE IF Len(S.hQueue[hd]) >= MaxPoolQueue
    THEN [S EXCEPT !.blocked = TRUE, !.err = NoErr]
    ELSE [S EXCEPT !.hQueue[hd] = Append(@, ev), !.err = NoErr]

\* a mutant of handleMessage: the epoch of the stream is not compared
handleMessageIgnoringEpoch(S, meta, entry) ==
    LET ph == S.peers[meta.sender]
        key == <<entry.topic, meta.sender>>
        hd == S.handlers[entry.topic]
    IN
    IF ph = 0 THEN S
    ELSE IF S.peerObj[ph] # "valid" THEN S
    ELSE IF hd = 0
    THEN IF Len(S.pending[key]) > config.MaxPendingMessageCountPerTopic
         THEN deregisterPeer([S EXCEPT !.pending[key] = <<>>], ph, ErrTopicCongested)
         ELSE [S EXCEPT !.pending[key] = Append(@, PoolEvent(meta, entry))]
    ELSE LET R == AddEvent(S, hd, PoolEvent(meta, entry))
         IN IF IsErr(R.err) THEN deregisterPeer(R, ph, R.err) ELSE R

\* a mutant of handleMessage: the error of AddEvent is ignored
handleMessageIgnoringAddEvent(S, meta, entry) ==
    LET ph == S.peers[meta.sender]
        key == <<entry.topic, meta.sender>>
        hd == S.handlers[entry.topic]
    IN
    IF ph = 0 THEN S
    ELSE IF PeerEpoch(ph) # meta.epoch THEN S
    ELSE IF S.peerObj[ph] # "valid" THEN S
    ELSE IF hd = 0
    THEN IF Len(S.pending[key]) > config.MaxPendingMessageCountPerTopic
         THEN deregisterPeer([S EXCEPT !.pending[key] = <<>>], ph, ErrTopicCongested)
         ELSE [S EXCEPT !.pending[key] = Append(@, PoolEvent(meta, entry))]
    ELSE [AddEvent(S, hd, PoolEvent(meta, entry)) EXCEPT !.err = NoErr]

\* MessageServer.handleMessage
handleMessage(S, meta, entry) ==
    LET ph == S.peers[meta.sender]
        key == <<entry.topic, meta.sender>>
        hd == S.handlers[entry.topic]
    IN
    IF ph = 0 THEN S
    ELSE IF PeerEpoch(ph) # meta.epoch THEN S
    ELSE IF S.peerObj[ph] # "valid" THEN S
    ELSE IF hd = 0
    THEN IF Len(S.pending[key]) > config.MaxPendingMessageCountPerTopic
         THEN deregisterPeer([S EXCEPT !.pending[key] = <<>>], ph, ErrTopicCongested)
         ELSE [S EXCEPT !.pending[key] = Append(@, PoolEvent(meta, entry))]
    ELSE LET R == AddEvent(S, hd, PoolEvent(meta, entry))
         IN IF IsErr(R.err) THEN deregisterPeer(R, ph, R.err) ELSE R

\* a mutant of handleRawMessage: the buffer is dropped only when it is longer
\* than the maximum
handleRawMessageDroppingLate(S, entry) ==
    LET key == <<entry.entry.topic, serverID>>
        hd == S.handlers[entry.entry.topic]
    IN
    IF hd = 0
    THEN IF Len(S.pending[key]) + 1 > config.MaxPendingMessageCountPerTopic
         THEN [S EXCEPT !.pending[key] = <<>>]
         ELSE [S EXCEPT !.pending[key] = Append(@, entry)]
    ELSE [AddEvent(S, hd, entry) EXCEPT !.err = NoErr]

\* a mutant of handleRawMessage: an entry the handle refuses is buffered
handleRawMessageBufferingRefused(S, entry) ==
    LET key == <<entry.entry.topic, serverID>>
        hd == S.handlers[entry.entry.topic]
    IN
    IF hd = 0
    THEN IF Len(S.pending[key]) + 1 >= config.MaxPendingMessageCountPerTopic
         THEN [S EXCEPT !.pending[key] = <<>>]
         ELSE [S EXCEPT !.pending[key] = Append(@, entry)]
    ELSE LET R == AddEvent(S, hd, entry)
         IN IF IsErr(R.err)
            THEN [R EXCEPT !.pending[key] = Append(@, entry), !.err = NoErr]
            ELSE R

\* MessageServer.handleRawMessage: without a handler the entry is appended to
\* the buffer of (topic, serverID) and the buffer is deleted when it has
\* reached MaxPendingMessageCountPerTopic; with a handler the entry is
\* submitted and an error of AddEvent is logged and ignored
handleRawMessage(S, entry) ==
    LET key == <<entry.entry.topic, serverID>>
        hd == S.handlers[entry.entry.topic]
    IN
    IF hd = 0
    THEN IF Len(S.pending[key]) + 1 >= config.MaxPendingMessageCountPerTopic
         THEN [S EXCEPT !.pending[key] = <<>>]
         ELSE [S EXCEPT !.pending[key] = Append(@, entry)]
    ELSE [AddEvent(S, hd, entry) EXCEPT !.err = NoErr]

\* the loops over task.rawMessageEntries and task.messageEntries in run, and
\* over one key's entries in handlePendingMessages: an entry with a
\* StreamMeta goes to handleMessage, one without to handleRawMessage
RECURSIVE handleEntries(_, _)
handleEntries(S, evs) ==
    IF evs = <<>> THEN S
    ELSE handleEntries(IF Head(evs).meta # NoMeta
                       THEN handleMessage(S, Head(evs).meta, Head(evs).entry)
                       ELSE handleRawMessage(S, Head(evs)),
                       Tail(evs))

BatchEvents(meta, entries) ==
    [i \in 1..Len(entries) |-> PoolEvent(meta, entries[i])]

\* a mutant of handlePendingMessages: the entries of a key are submitted but
\* the key is not deleted
RECURSIVE handlePendingMessagesKeepingKeys(_, _, _)
handlePendingMessagesKeepingKeys(S, topic, ord) ==
    IF ord = <<>> THEN S
    ELSE handlePendingMessagesKeepingKeys(
             [handleEntries(S, S.pending[<<topic, Head(ord)>>])
                 EXCEPT !.pending[<<topic, Head(ord)>>] = S.pending[<<topic, Head(ord)>>]],
             topic, Tail(ord))

\* MessageServer.handlePendingMessages: the keys of the topic are visited in
\* the order ord (Go leaves the order of a map range open), each key's entries
\* in the order they were buffered, and the key is deleted.
RECURSIVE handlePendingMessages(_, _, _)
handlePendingMessages(S, topic, ord) ==
    IF ord = <<>> THEN S
    ELSE LET key == <<topic, Head(ord)>>
             R == handleEntries(S, S.pending[key])
         IN handlePendingMessages([R EXCEPT !.pending[key] = <<>>], topic, Tail(ord))

\* a mutant of registerHandler: a second handler replaces the first
registerHandlerReplacing(S, topic, hd, ord) ==
    handlePendingMessages([S EXCEPT !.handlers[topic] = hd], topic, ord)

\* MessageServer.registerHandler; the deferred close(doneCh) runs on both
\* ways out
registerHandler(S, topic, hd, ord) ==
    LET R == IF S.handlers[topic] # 0 THEN [S EXCEPT !.fault = "duplicate handlers"]
             ELSE handlePendingMessages([S EXCEPT !.handlers[topic] = hd], topic, ord)
    IN [R EXCEPT !.addDone[hd] = "closed"]

\* close(task.done), when the task has a done channel
closeDone(S, done) ==
    IF done = 0 THEN S ELSE [S EXCEPT !.doneCh[done] = "closed"]

\* a mutant of deregisterHandler: task.done is closed at once and the handler
\* stays in the table
deregisterHandlerKeepingHandler(S, topic, done) == closeDone(S, done)

\* a mutant of deregisterHandler: the done channel of a task for a topic with
\* no handler is left open
deregisterHandlerLeavingDone(S, topic, done) ==
    LET hd == S.handlers[topic] IN
    IF hd = 0 THEN S
    ELSE [S EXCEPT !.handlers[topic] = 0,
                   !.hStatus[hd] = IF @ = "running" THEN "draining" ELSE @,
                   !.hDone[hd] = done]

\* run, case taskOnDeregisterHandler: the handler leaves the table at once and
\* a goroutine of its own runs GracefulUnregister and then closes task.done;
\* with no handler for the topic task.done is closed at once.
deregisterHandler(S, topic, done) ==
    LET hd == S.handlers[topic] IN
    IF hd = 0 THEN closeDone(S, done)
    ELSE [S EXCEPT !.handlers[topic] = 0,
                   !.hStatus[hd] = IF @ = "running" THEN "draining" ELSE @,
                   !.hDone[hd] = done]

\* run, case taskOnRegisterPeer. The field stop says that run returns.
onRegisterPeer(S, h) ==
    LET R == registerPeer(S, h) IN
    IF ~IsErr(R.err) THEN [R EXCEPT !.stop = FALSE]
    ELSE IF R.err.kind \in {"StaleConnection", "DuplicateConnection"}
    THEN LET R1 == Send(R, h, errorToRPCResponse(R.err))
         IN [R1 EXCEPT !.stop = IsErr(R1.err), !.err = R.err]
    ELSE [R EXCEPT !.stop = TRUE]

\* the acks of one peer, as m.acks.Range collects them in tick
PeerAcks(peerID) ==
    {Entry(t, acks[peerID][t]) : t \in {u \in Topics : acks[peerID][u] # initAck}}

\* a mutant of tickPeers: a peer with no acks is sent an empty response
RECURSIVE tickPeersSendingEmpty(_, _, _)
tickPeersSendingEmpty(S, todo, gone) ==
    IF todo = {} THEN [S EXCEPT !.gone = gone]
    ELSE LET n == CHOOSE x \in todo : TRUE
             R == Send(S, S.peers[n], AckResponse(PeerAcks(n)))
         IN tickPeersSendingEmpty(R, todo \ {n},
                      IF R.err.kind = "InternalSenderClosed" THEN gone \cup {n} ELSE gone)

\* MessageServer.tick, the loop over m.peers: a peer whose Send reports a
\* closed sender is noted in gone, the others are left alone.
RECURSIVE tickPeers(_, _, _)
tickPeers(S, todo, gone) ==
    IF todo = {} THEN [S EXCEPT !.gone = gone]
    ELSE LET n == CHOOSE x \in todo : TRUE
             as == PeerAcks(n)
             R == IF as = {} THEN [S EXCEPT !.err = NoErr]
                  ELSE Send(S, S.peers[n], AckResponse(as))
         IN tickPeers(R, todo \ {n},
                      IF R.err.kind = "InternalSenderClosed" THEN gone \cup {n} ELSE gone)

\* a mutant of deregisterAll: the peers are deregistered with an error
RECURSIVE deregisterAllAborting(_, _)
deregisterAllAborting(S, gone) ==
    IF gone = {} THEN S
    ELSE LET n == CHOOSE x \in gone : TRUE
         IN deregisterAllAborting(deregisterPeer(S, S.peers[n], ErrInternalSenderClosed),
                                  gone \ {n})

\* the deferred loop of tick over peersToDeregister
RECURSIVE deregisterAll(_, _)
deregisterAll(S, gone) ==
    IF gone = {} THEN S
    ELSE LET n == CHOOSE x \in gone : TRUE
         IN deregisterAll(deregisterPeer(S, S.peers[n], NoErr), gone \ {n})

tick(S) ==
    LET R == tickPeers([S EXCEPT !.gone = {}], {n \in Nodes : S.peers[n] # 0}, {})
    IN deregisterAll(R, R.gone)

\* run, the switch over the task taken from the queue
runTask(S, task, ord) ==
    CASE task.type = "OnMessageBatch" ->
            handleEntries(handleEntries(S, task.rawMessageEntries),
                          BatchEvents(task.meta, task.entries))
      [] task.type = "OnRegisterHandler" ->
            registerHandler(S, task.topic, task.hd, ord)
      [] task.type = "OnDeregisterHandler" ->
            deregisterHandler(S, task.topic, task.done)
      [] task.type = "OnRegisterPeer" -> onRegisterPeer(S, task.h)
      [] task.type = "OnDeregisterPeer" -> deregisterPeerByID(S, task.meta.sender)

\* ---------------------------------------------------------------- actions
Commit(R) ==
    /\ peers' = R.peers
    /\ peerObj' = R.peerObj
    /\ handlers' = R.handlers
    /\ pending' = R.pending
    /\ sendCh' = R.sendCh
    /\ hStatus' = R.hStatus
    /\ hQueue' = R.hQueue
    /\ hDone' = R.hDone
    /\ addDone' = R.addDone
    /\ doneCh' = R.doneCh
    /\ fault' = R.fault

Alive == running /\ fault = "none"

\* the orders in which handlePendingMessages may visit the keys of a topic
Perms(set) ==
    {ord \in [1..Cardinality(set) -> set] :
        \A i, j \in 1..Cardinality(set) : i # j => ord[i] # ord[j]}
PendingOrders(topic) == Perms({n \in Senders : pending[<<topic, n>>] # <<>>})

\* a mutant of ProcessTask: registering a peer resets the acks of its sender
ProcessTaskResettingAcks ==
    /\ Alive
    /\ taskQueue # <<>>
    /\ LET task == Head(taskQueue) IN
       /\ \E ord \in (IF task.type = "OnRegisterHandler"
                      THEN PendingOrders(task.topic) ELSE {<<>>}) :
             LET R == runTask(St, task, ord) IN
             /\ ~R.blocked
             /\ Commit(R)
             /\ taskErr' = IF task.type = "OnRegisterPeer" THEN R.err ELSE NoErr
             /\ running' = ~(task.type = "OnRegisterPeer" /\ R.stop)
       /\ acks' = IF task.type = "OnRegisterPeer"
                  THEN [acks EXCEPT ![PeerID(task.h)] = [t \in Topics |-> initAck]]
                  ELSE acks
    /\ taskQueue' = Tail(taskQueue)
    /\ UNCHANGED <<config, rpcVars, syncVars, localVars, streamSent,
                   apiErr, streamVars, hTopic, hPc, hCur, hErr,
                   nextHandle, repeated, histVars>>

\* run takes one task from the queue and processes it
ProcessTask ==
    /\ Alive
    /\ taskQueue # <<>>
    /\ LET task == Head(taskQueue) IN
       \E ord \in (IF task.type = "OnRegisterHandler"
                   THEN PendingOrders(task.topic) ELSE {<<>>}) :
          LET R == runTask(St, task, ord) IN
          /\ ~R.blocked
          /\ Commit(R)
          /\ taskErr' = IF task.type = "OnRegisterPeer" THEN R.err ELSE NoErr
          /\ running' = ~(task.type = "OnRegisterPeer" /\ R.stop)
    /\ taskQueue' = Tail(taskQueue)
    /\ UNCHANGED <<config, rpcVars, syncVars, localVars, streamSent,
                   apiErr, acks, streamVars, hTopic, hPc, hCur, hErr,
                   nextHandle, repeated, histVars>>

\* run, case <-ticker.C
Tick ==
    /\ Alive
    /\ LET R == tick(St) IN
       /\ ~R.blocked
       /\ Commit(R)
    /\ UNCHANGED <<config, rpcVars, syncVars, localVars, streamSent,
                   apiErr, running, taskErr, taskQueue, acks, streamVars,
                   hTopic, hPc, hCur, hErr, nextHandle, repeated, histVars>>

\* scheduleTask and scheduleTaskBlocking put a task on the bounded queue
QueueHasRoom == Len(taskQueue) < config.MaxPendingTaskCount

\* SendMessage: the first frame of a new stream carries its StreamMeta, and a
\* stream handle is made for it. Streams are opened in the order 1, 2, ...
OpenStream(h, n, e) ==
    /\ stPc[h] = "idle"
    /\ \A g \in Streams : g < h => stPc[g] # "idle"
    /\ stMeta' = [stMeta EXCEPT ![h] = [sender |-> n, epoch |-> e]]
    /\ stPc' = [stPc EXCEPT ![h] = "register"]
    /\ UNCHANGED <<config, rpcVars, syncVars, localVars, streamSent,
                   apiErr, doneCh, loopVars, taskQueue, regVars, acks, isClosed, sendCh,
                   poolVars, repeated, histVars>>

\* receive: scheduleTaskBlocking(taskOnRegisterPeer)
RecvRegister(h) ==
    /\ stPc[h] = "register"
    /\ QueueHasRoom
    /\ taskQueue' = Append(taskQueue, taskOnRegisterPeer(h))
    /\ stPc' = [stPc EXCEPT ![h] = "recv"]
    /\ UNCHANGED <<config, rpcVars, syncVars, localVars, streamSent,
                   apiErr, doneCh, loopVars, regVars, acks, stMeta, isClosed, sendCh,
                   poolVars, repeated, histVars>>

\* history: the entries of a packet extend the run 1, 2, ..., n of a topic
RECURSIVE InOrder(_, _, _)
InOrder(n, topic, entries) ==
    IF entries = <<>> THEN n
    ELSE IF Head(entries).topic # topic THEN InOrder(n, topic, Tail(entries))
    ELSE IF n >= 0 /\ Head(entries).seq = n + 1 THEN InOrder(n + 1, topic, Tail(entries))
    ELSE -1

\* receive: a packet with entries becomes a taskOnMessageBatch
RecvBatch(h, entries) ==
    /\ stPc[h] = "recv"
    /\ nRecv < MaxRecv
    /\ QueueHasRoom
    /\ taskQueue' = Append(taskQueue, taskOnMessageBatch(stMeta[h], entries))
    /\ nRecv' = nRecv + 1
    /\ sentUpTo' = [sentUpTo EXCEPT ![PeerID(h)] =
                      [t \in Topics |-> InOrder(@[t], t, entries)]]
    /\ UNCHANGED <<config, rpcVars, syncVars, localVars, streamSent,
                   apiErr, doneCh, loopVars, regVars, acks, streamVars, sendCh, poolVars,
                   repeated, cbInvoked, cbOk>>

\* the receive goroutine of SendMessage ends: receive returned an error (Recv
\* failed or the stream ended), the error goes to the send channel if there is
\* room, and the deferred streamHandle.Close closes the handle.
RecvEnd(h) ==
    /\ stPc[h] \in {"register", "recv"}
    /\ sendCh' = [sendCh EXCEPT ![h] =
                    IF Len(@) < config.SendChannelSize
                    THEN Append(@, errorToRPCResponse(ErrRecv)) ELSE @]
    /\ isClosed' = [isClosed EXCEPT ![h] = TRUE]
    /\ stPc' = [stPc EXCEPT ![h] = "closed"]
    /\ UNCHANGED <<config, rpcVars, syncVars, localVars, streamSent,
                   apiErr, doneCh, loopVars, taskQueue, regVars, acks, stMeta, poolVars,
                   repeated, histVars>>

\* the send goroutine of SendMessage writes one response to the stream
SendTask(h) ==
    /\ sendCh[h] # <<>>
    /\ sendCh' = [sendCh EXCEPT ![h] = Tail(@)]
    /\ UNCHANGED <<config, rpcVars, syncVars, localVars, streamSent,
                   apiErr, doneCh, loopVars, taskQueue, regVars, acks, streamVars,
                   poolVars, repeated, histVars>>

\* a mutant of scheduleTask: the task is put on the queue even when it is full
scheduleTaskOverfilling(queue, task) ==
    [queue |-> Append(queue, task), err |-> NoErr]

\* scheduleTask, the non-blocking enqueue: the queue and the error returned
scheduleTask(queue, task) ==
    IF Len(queue) < config.MaxPendingTaskCount
    THEN [queue |-> Append(queue, task), err |-> NoErr]
    ELSE [queue |-> queue, err |-> ErrTaskQueueCongested]

\* AddHandler: RegisterEvent makes a pool handle, then scheduleTask; a full
\* queue makes AddHandler return ErrTaskQueueCongested with no task added.
AddHandlerCall(topic) ==
    /\ nextHandle <= MaxHandles
    /\ hTopic' = [hTopic EXCEPT ![nextHandle] = topic]
    /\ hStatus' = [hStatus EXCEPT ![nextHandle] = "running"]
    /\ nextHandle' = nextHandle + 1
    /\ LET R == scheduleTask(taskQueue, taskOnRegisterHandler(topic, nextHandle)) IN
       /\ taskQueue' = R.queue
       /\ apiErr' = R.err
       /\ addDone' = [addDone EXCEPT ![nextHandle] =
                        IF IsErr(R.err) THEN "none" ELSE "open"]
    /\ UNCHANGED <<config, rpcVars, localVars, streamSent, doneCh, loopVars, regVars,
                   acks, streamVars, sendCh, hQueue, hPc, hCur, hErr, hDone, repeated,
                   histVars>>

\* AddHandler, called on its own
AddHandler(topic) == AddHandlerCall(topic) /\ UNCHANGED syncVars

\* the done channel make(chan struct{}) returns next, 0 when MaxDone are made
NextDone ==
    IF \E d \in Dones : doneCh[d] = "none"
    THEN CHOOSE d \in Dones : doneCh[d] = "none" /\ \A e \in 1..(d - 1) : doneCh[e] # "none"
    ELSE 0

\* RemoveHandler: a done channel is made and scheduleTask puts the task with
\* it on the queue; on an error the channel is not returned.
RemoveHandlerCall(topic) ==
    LET R == scheduleTask(taskQueue, taskOnDeregisterHandler(topic, NextDone)) IN
    /\ IsErr(R.err) \/ NextDone # 0
    /\ taskQueue' = R.queue
    /\ apiErr' = R.err
    /\ doneCh' = IF IsErr(R.err) THEN doneCh ELSE [doneCh EXCEPT ![NextDone] = "open"]
    /\ UNCHANGED <<config, rpcVars, localVars, streamSent,
                   loopVars, regVars, acks, streamVars, sendCh, poolVars,
                   repeated, histVars>>

\* RemoveHandler, called on its own
RemoveHandler(topic) == RemoveHandlerCall(topic) /\ UNCHANGED syncVars

\* SyncAddHandler, up to its select: AddHandler is called; an error is
\* returned at once, otherwise the caller waits for doneCh or closeCh
SyncAddHandler(topic) ==
    /\ syncPc \in {"idle", "returned"}
    /\ AddHandlerCall(topic)
    /\ IF IsErr(apiErr')
       THEN syncPc' = "returned" /\ syncWait' = 0 /\ syncErr' = apiErr'
       ELSE syncPc' = "waitAdd" /\ syncWait' = nextHandle /\ syncErr' = NoErr
    /\ UNCHANGED <<isRunning, closeCh>>

\* SyncRemoveHandler, up to its select
SyncRemoveHandler(topic) ==
    /\ syncPc \in {"idle", "returned"}
    /\ RemoveHandlerCall(topic)
    /\ IF IsErr(apiErr')
       THEN syncPc' = "returned" /\ syncWait' = 0 /\ syncErr' = apiErr'
       ELSE syncPc' = "waitRemove" /\ syncWait' = NextDone /\ syncErr' = NoErr
    /\ UNCHANGED <<isRunning, closeCh>>

\* the done channel the waiting caller selects on is closed
SyncDoneClosed ==
    \/ syncPc = "waitAdd" /\ addDone[syncWait] = "closed"
    \/ syncPc = "waitRemove" /\ doneCh[syncWait] = "closed"

\* select, case <-doneCh: both calls return without an error
SyncDone ==
    /\ SyncDoneClosed
    /\ syncPc' = "returned"
    /\ syncErr' = NoErr
    /\ UNCHANGED <<config, rpcVars, isRunning, closeCh, syncWait, localVars, streamSent, apiErr,
                   doneCh, loopVars, taskQueue, regVars, acks, streamVars, sendCh,
                   poolVars, repeated, histVars>>

\* a mutant of SyncClosed: both calls return nil when closeCh is closed
SyncClosedReturningNil ==
    /\ syncPc \in {"waitAdd", "waitRemove"}
    /\ closeCh = "closed"
    /\ syncPc' = "returned"
    /\ syncErr' = NoErr
    /\ UNCHANGED <<config, rpcVars, isRunning, closeCh, syncWait, localVars, streamSent, apiErr,
                   doneCh, loopVars, taskQueue, regVars, acks, streamVars, sendCh,
                   poolVars, repeated, histVars>>

\* select, case <-m.closeCh: SyncAddHandler returns ErrPeerMessageServerClosed,
\* SyncRemoveHandler logs and returns nil
SyncClosed ==
    /\ syncPc \in {"waitAdd", "waitRemove"}
    /\ closeCh = "closed"
    /\ syncPc' = "returned"
    /\ syncErr' = IF syncPc = "waitAdd" THEN ErrServerClosed ELSE NoErr
    /\ UNCHANGED <<config, rpcVars, isRunning, closeCh, syncWait, localVars, streamSent, apiErr,
                   doneCh, loopVars, taskQueue, regVars, acks, streamVars, sendCh,
                   poolVars, repeated, histVars>>

\* run, case <-ctx.Done(): the root context is cancelled and run returns
RunCancelled ==
    /\ Alive
    /\ running' = FALSE
    /\ UNCHANGED <<config, rpcVars, syncVars, localVars, streamSent, apiErr, doneCh, fault,
                   taskErr, taskQueue, regVars, acks, streamVars, sendCh, poolVars,
                   repeated, histVars>>

\* Run returns after run has: its deferred function stores 0 in isRunning
\* and closes closeCh
RunReturns ==
    /\ ~running
    /\ closeCh = "open"
    /\ isRunning' = 0
    /\ closeCh' = "closed"
    /\ UNCHANGED <<config, rpcVars, syncPc, syncWait, syncErr, localVars, streamSent, apiErr,
                   doneCh, loopVars, taskQueue, regVars, acks, streamVars, sendCh,
                   poolVars, repeated, histVars>>

\* ScheduleDeregisterPeerTask
ScheduleDeregisterPeerTask(peerID) ==
    LET R == scheduleTask(taskQueue, taskOnDeregisterPeer(peerID)) IN
    /\ taskQueue' = R.queue
    /\ apiErr' = R.err
    /\ UNCHANGED <<config, rpcVars, syncVars, localVars, streamSent,
                   doneCh, loopVars, regVars, acks, streamVars, sendCh,
                   poolVars, repeated, histVars>>

\* ------------------------------------------------------- the worker pool
\* The handler of a handle returned err: the pool cancels the handle and drops
\* what it had queued, and OnExit schedules taskOnDeregisterHandler with the
\* non-blocking scheduleTask, whose error is ignored.
HandlerExit(hd, err) ==
    /\ hStatus' = [hStatus EXCEPT ![hd] = "failed"]
    /\ hErr' = [hErr EXCEPT ![hd] = err]
    /\ hQueue' = [hQueue EXCEPT ![hd] = <<>>]
    /\ hPc' = [hPc EXCEPT ![hd] = "idle"]
    /\ hCur' = [hCur EXCEPT ![hd] = NoEvent]
    /\ taskQueue' = scheduleTask(taskQueue, taskOnDeregisterHandler(hTopic[hd], 0)).queue

HandleActive(hd) == hStatus[hd] \in {"running", "draining"}

\* a mutant of SeqCheck: the duplicate check lets sequence = lastAck through
SeqCheckDupOffByOne(lastAck, seq) ==
    IF lastAck > seq THEN "repeated"
    ELSE IF lastAck # initAck /\ seq > lastAck + 1 THEN "lost"
    ELSE "deliver"

\* a mutant of SeqCheck: no gap check
SeqCheckNoGap(lastAck, seq) ==
    IF lastAck >= seq THEN "repeated" ELSE "deliver"

\* what the sequence checks of the wrapper decide for an event, given the
\* lastAck that acks.Get returned
SeqCheck(lastAck, seq) ==
    IF lastAck >= seq THEN "repeated"
    ELSE IF lastAck # initAck /\ seq > lastAck + 1 THEN "lost"
    ELSE "deliver"

\* the handler wrapper of AddHandler, from taking the event to the sequence
\* checks: acks.Get, the duplicate check and the gap check
WrapperCheck(hd) ==
    /\ HandleActive(hd)
    /\ hPc[hd] = "idle"
    /\ hQueue[hd] # <<>>
    /\ Head(hQueue[hd]).meta # NoMeta
    /\ LET ev == Head(hQueue[hd])
           lastAck == acks[ev.meta.sender][ev.entry.topic]
           verdict == SeqCheck(lastAck, ev.entry.seq)
       IN
       CASE verdict = "repeated" ->
              /\ hQueue' = [hQueue EXCEPT ![hd] = Tail(@)]
              /\ repeated' = repeated + 1
              /\ UNCHANGED <<hStatus, hPc, hCur, hErr, taskQueue>>
         [] verdict = "lost" ->
              /\ HandlerExit(hd, ErrDataLost(ev.entry.topic, lastAck + 1))
              /\ UNCHANGED repeated
         [] verdict = "deliver" ->
              /\ hQueue' = [hQueue EXCEPT ![hd] = Tail(@)]
              /\ hPc' = [hPc EXCEPT ![hd] = "checked"]
              /\ hCur' = [hCur EXCEPT ![hd] =
                            [meta |-> ev.meta, entry |-> ev.entry, lastAck |-> lastAck]]
              /\ UNCHANGED <<hStatus, hErr, taskQueue, repeated>>
    /\ UNCHANGED <<config, rpcVars, syncVars, localVars, streamSent,
                   apiErr, doneCh, loopVars, regVars, acks, streamVars,
                   sendCh, hTopic, hDone, addDone, nextHandle, histVars>>

\* the handler wrapper of AddHandler for an event that is not a
\* poolEventArgs, a local message: fn is called with the server's own ID and
\* the value; its error ends the handle, nothing else is done
WrapperLocal(hd, outcome) ==
    /\ HandleActive(hd)
    /\ hPc[hd] = "idle"
    /\ hQueue[hd] # <<>>
    /\ Head(hQueue[hd]).meta = NoMeta
    /\ outcome \in {"ok", "fn"}
    /\ LET ev == Head(hQueue[hd]) IN
       /\ cbInvoked' = [cbInvoked EXCEPT ![serverID][ev.entry.topic] = @ + 1]
       /\ cbOk' = IF outcome = "ok"
                  THEN [cbOk EXCEPT ![serverID][ev.entry.topic] = @ \cup {ev.entry.seq}]
                  ELSE cbOk
    /\ IF outcome = "fn"
       THEN HandlerExit(hd, ErrCallback)
       ELSE /\ hQueue' = [hQueue EXCEPT ![hd] = Tail(@)]
            /\ UNCHANGED <<hStatus, hPc, hCur, hErr, taskQueue>>
    /\ UNCHANGED <<config, rpcVars, syncVars, localVars, streamSent,
                   apiErr, doneCh, loopVars, regVars, acks, streamVars,
                   sendCh, hTopic, hDone, addDone, nextHandle, repeated,
                   nRecv, sentUpTo>>

\* a mutant of wrapperResult: the error of unmarshalMessage is ignored
wrapperResultIgnoringDecode(outcome) ==
    IF outcome = "fn" THEN ErrCallback ELSE NoErr

\* a mutant of wrapperResult: the error of fn is ignored
wrapperResultIgnoringFn(outcome) ==
    IF outcome = "decode" THEN ErrDecode ELSE NoErr

\* what the wrapper returns before acks.Set: the decode error, the error of
\* fn, or nothing
wrapperResult(outcome) ==
    CASE outcome = "decode" -> ErrDecode
      [] outcome = "fn" -> ErrCallback
      [] outcome = "ok" -> NoErr

Outcomes == {"ok", "decode", "fn"}

\* the wrapper decodes the content and invokes the user callback fn: the
\* outcome is "ok", "decode" (unmarshalMessage failed and fn is not called) or
\* "fn" (fn returned an error)
WrapperCall(hd, outcome) ==
    /\ hPc[hd] = "checked"
    /\ LET n == hCur[hd].meta.sender
           t == hCur[hd].entry.topic
       IN
       /\ cbInvoked' = IF outcome = "decode" THEN cbInvoked
                       ELSE [cbInvoked EXCEPT ![n][t] = @ + 1]
       /\ cbOk' = IF outcome = "ok"
                  THEN [cbOk EXCEPT ![n][t] = @ \cup {hCur[hd].entry.seq}]
                  ELSE cbOk
    /\ IF IsErr(wrapperResult(outcome))
       THEN HandlerExit(hd, wrapperResult(outcome))
       ELSE /\ hPc' = [hPc EXCEPT ![hd] = "called"]
            /\ UNCHANGED <<hStatus, hCur, hQueue, hErr, taskQueue>>
    /\ UNCHANGED <<config, rpcVars, syncVars, localVars, streamSent,
                   apiErr, doneCh, loopVars, regVars, acks, streamVars,
                   sendCh, hTopic, hDone, addDone, nextHandle, repeated,
                   nRecv, sentUpTo>>

\* the wrapper, after fn returned nil: acks.Set
WrapperSet(hd) ==
    /\ hPc[hd] = "called"
    /\ acks' = [acks EXCEPT ![hCur[hd].meta.sender][hCur[hd].entry.topic] =
                  hCur[hd].entry.seq]
    /\ hPc' = [hPc EXCEPT ![hd] = "idle"]
    /\ hCur' = [hCur EXCEPT ![hd] = NoEvent]
    /\ UNCHANGED <<config, rpcVars, syncVars, localVars, streamSent,
                   apiErr, doneCh, loopVars, taskQueue, regVars, streamVars,
                   sendCh, hTopic, hStatus, hQueue, hErr, hDone, addDone, nextHandle,
                   repeated,
                   histVars>>

\* The goroutine run starts for a deregistered handler: GracefulUnregister
\* ends (the handle has processed what it had queued, or the timeout passed
\* and what is still queued is dropped; at once for a handle that is already
\* cancelled), then task.done is closed if the task has one.
Unregistered(hd) ==
    /\ hStatus[hd] = "draining" \/ hDone[hd] # 0
    /\ hStatus' = [hStatus EXCEPT ![hd] = IF @ = "draining" THEN "stopped" ELSE @]
    /\ hQueue' = [hQueue EXCEPT ![hd] = <<>>]
    /\ doneCh' = IF hDone[hd] = 0 THEN doneCh
                 ELSE [doneCh EXCEPT ![hDone[hd]] = "closed"]
    /\ hDone' = [hDone EXCEPT ![hd] = 0]
    /\ UNCHANGED <<config, rpcVars, syncVars, localVars, streamSent, apiErr, loopVars, taskQueue,
                   regVars, acks, streamVars, sendCh, hTopic, hPc, hCur, hErr, addDone,
                   nextHandle, repeated, histVars>>

\* ------------------------------------------------------------ specification
Config(peerCount, pendingCount, taskCount, sendSize) ==
    [MaxPeerCount |-> peerCount, MaxPendingMessageCountPerTopic |-> pendingCount,
     MaxPendingTaskCount |-> taskCount, SendChannelSize |-> sendSize]

\* NewMessageServer(serverID, cfg), with Run started
InitWith(cfg) ==
    /\ config = cfg
    /\ running = TRUE
    /\ fault = "none"
    /\ taskErr = NoErr
    /\ taskQueue = <<>>
    /\ peers = [n \in Nodes |-> 0]
    /\ peerObj = [h \in Streams |-> "none"]
    /\ handlers = [t \in Topics |-> 0]
    /\ pending = [k \in Topics \X Senders |-> <<>>]
    /\ acks = [n \in Nodes |-> [t \in Topics |-> initAck]]
    /\ stMeta = [h \in Streams |-> NoMeta]
    /\ stPc = [h \in Streams |-> "idle"]
    /\ isClosed = [h \in Streams |-> FALSE]
    /\ sendCh = [h \in Streams |-> <<>>]
    /\ hTopic = [hd \in Handles |-> ""]
    /\ hStatus = [hd \in Handles |-> "unused"]
    /\ hQueue = [hd \in Handles |-> <<>>]
    /\ hPc = [hd \in Handles |-> "idle"]
    /\ hCur = [hd \in Handles |-> NoEvent]
    /\ hErr = [hd \in Handles |-> NoErr]
    /\ nextHandle = 1
    /\ hDone = [hd \in Handles |-> 0]
    /\ addDone = [hd \in Handles |-> "none"]
    /\ isRunning = 1
    /\ closeCh = "open"
    /\ syncPc = "idle"
    /\ syncWait = 0
    /\ syncErr = NoErr
    /\ localCh = "open"
    /\ batchRawMessages = <<>>
    /\ localPc = "run"
    /\ localErr = NoErr
    /\ nLocal = 0
    /\ streamSent = [h \in Streams |-> <<>>]
    /\ apiErr = NoErr
    /\ doneCh = [d \in Dones |-> "none"]
    /\ repeated = 0
    /\ nRecv = 0
    /\ sentUpTo = [n \in Nodes |-> [t \in Topics |-> 0]]
    /\ cbInvoked = [n \in Senders |-> [t \in Topics |-> 0]]
    /\ cbOk = [n \in Senders |-> [t \in Topics |-> {}]]
    /\ rpcPc = [h \in Streams |-> "none"]
    /\ sendPc = [h \in Streams |-> "run"]
    /\ streamCtx = [h \in Streams |-> "live"]

\* One sender and one topic: the sequence checks, the acks and the tick.
Init == InitWith(Config(1, 1, 2, 1))

Next ==
    \/ \E h \in 1..AckStreams : OpenStream(h, "p1", 1)
    \/ \E h \in Streams : RecvRegister(h)
    \/ \E h \in Streams, q \in Seqs : RecvBatch(h, <<Entry("t1", q)>>)
    \/ \E h \in Streams : RecvEnd(h)
    \/ \E h \in Streams : SendTask(h)
    \/ AddHandler("t1")
    \/ RemoveHandler("t1")
    \/ ProcessTask
    \/ Tick
    \/ \E hd \in Handles : WrapperCheck(hd)
    \/ \E hd \in Handles, o \in Outcomes : WrapperCall(hd, o)
    \/ \E hd \in Handles : WrapperSet(hd)
    \/ \E hd \in Handles : Unregistered(hd)

Spec == Init /\ [][Next]_vars

\* One sender on one stream and a packet budget of LiveRecv: the executions
\* in which the delivery of acks is followed to its end.
LiveNext ==
    \/ OpenStream(1, "p1", 1)
    \/ RecvRegister(1)
    \/ \E q \in 1..LiveSeq : nRecv < LiveRecv /\ RecvBatch(1, <<Entry("t1", q)>>)
    \/ SendTask(1)
    \/ AddHandler("t1")
    \/ RemoveHandler("t1")
    \/ ProcessTask
    \/ Tick
    \/ \E hd \in Handles : WrapperCheck(hd)
    \/ \E hd \in Handles : WrapperCall(hd, "ok")
    \/ \E hd \in Handles : WrapperSet(hd)
    \/ \E hd \in Handles : Unregistered(hd)

\* The ticker of run fires again and again, the send goroutine of a stream
\* writes what is on its send channel, and a worker of the pool that has
\* called the callback goes on to record the ack.
Fairness ==
    /\ WF_vars(Tick)
    /\ WF_vars(SendTask(1))
    /\ \A hd \in Handles : WF_vars(WrapperSet(hd))

LiveSpec == Init /\ [][LiveNext]_vars /\ Fairness

\* Several senders, several streams of one sender with different epochs, one
\* topic with at most one handler: the peer registry. The h-th stream opened
\* is of one of the first h nodes.
PeerInit == InitWith(Config(1, 1, 1, 1))

NodeOf == <<"p1", "p2", "p3">>

PeerNext ==
    \/ \E h \in 1..2 : \E i \in 1..h, e \in Epochs : OpenStream(h, NodeOf[i], e)
    \/ OpenStream(3, "p3", 1)
    \/ \E h \in Streams : RecvRegister(h)
    \/ \E h \in 1..2 : RecvBatch(h, <<Entry("t1", 1)>>)
    \/ RecvEnd(1)
    \/ \E h \in Streams : SendTask(h)
    \/ ScheduleDeregisterPeerTask("p1")
    \/ nextHandle = 1 /\ AddHandler("t1")
    \/ ProcessTask
    \/ Tick
    \/ WrapperCheck(1)
    \/ WrapperCall(1, "ok")
    \/ WrapperSet(1)

SpecPeer == PeerInit /\ [][PeerNext]_vars

\* Two senders, each on one stream, and a handler for each of the two topics:
\* the acks of several topics and several peers in one tick.
AckInit == InitWith(Config(2, 1, 1, 1))

AckNext ==
    \/ \E h \in 1..2 : OpenStream(h, NodeOf[h], 1)
    \/ \E h \in 1..2 : RecvRegister(h)
    \/ \E h \in 1..2, t \in Topics : RecvBatch(h, <<Entry(t, 1)>>)
    \/ RecvEnd(1)
    \/ \E h \in 1..2 : SendTask(h)
    \/ nextHandle = 1 /\ AddHandler("t1")
    \/ nextHandle = 2 /\ AddHandler("t2")
    \/ ProcessTask
    \/ Tick
    \/ \E hd \in Handles : WrapperCheck(hd)
    \/ \E hd \in Handles : WrapperCall(hd, "ok")
    \/ \E hd \in Handles : WrapperSet(hd)

SpecAck == AckInit /\ [][AckNext]_vars

\* The calls of the API that put a task on the queue, with one sender and one
\* message: AddHandler, RemoveHandler and ScheduleDeregisterPeerTask, some of
\* them on a full queue, and the done channels of RemoveHandler.
ApiInit == InitWith(Config(1, 1, 2, 1))

ApiNext ==
    \/ OpenStream(1, "p1", 1)
    \/ RecvRegister(1)
    \/ nRecv < 1 /\ RecvBatch(1, <<Entry("t1", 1)>>)
    \/ nextHandle = 1 /\ AddHandler("t1")
    \/ \E t \in Topics : RemoveHandler(t)
    \/ ScheduleDeregisterPeerTask("p1")
    \/ ProcessTask
    \/ WrapperCheck(1)
    \/ \E o \in {"ok", "fn"} : WrapperCall(1, o)
    \/ WrapperSet(1)
    \/ Unregistered(1)

\* run takes the tasks of its queue one after the other, and the goroutine
\* that unregisters a handle ends (GracefulUnregister has a timeout).
ApiFairness ==
    /\ WF_vars(ProcessTask)
    /\ WF_vars(Unregistered(1))

SpecApi == ApiInit /\ [][ApiNext]_vars /\ ApiFairness

\* One sender that sends a packet of one entry and a packet of two, and a
\* handler whose callback may fail: the submission of messages to a handle
\* that is cancelled.
SubmitInit == InitWith(Config(1, 2, 2, 1))

SubmitNext ==
    \/ OpenStream(1, "p1", 1)
    \/ RecvRegister(1)
    \/ nRecv = 0 /\ RecvBatch(1, <<Entry("t1", 1)>>)
    \/ nRecv = 1 /\ RecvBatch(1, <<Entry("t1", 2), Entry("t1", 3)>>)
    \/ RecvEnd(1)
    \/ SendTask(1)
    \/ nextHandle = 1 /\ AddHandler("t1")
    \/ ProcessTask
    \/ Tick
    \/ WrapperCheck(1)
    \/ \E o \in {"ok", "fn"} : WrapperCall(1, o)
    \/ WrapperSet(1)

SpecSubmit == SubmitInit /\ [][SubmitNext]_vars

\* One sender that sends sequence 1 and then sequence 3, once or twice, to a
\* handler whose callback succeeds: the gap, and what follows it when run,
\* the pool and the send goroutine go on.
LostInit == InitWith(Config(1, 2, 2, 1))

LostNext ==
    \/ OpenStream(1, "p1", 1)
    \/ RecvRegister(1)
    \/ \E q \in {1, 3} : RecvBatch(1, <<Entry("t1", q)>>)
    \/ SendTask(1)
    \/ nextHandle = 1 /\ AddHandler("t1")
    \/ ProcessTask
    \/ Tick
    \/ WrapperCheck(1)
    \/ WrapperCall(1, "ok")
    \/ WrapperSet(1)

LostFairness ==
    /\ WF_vars(ProcessTask)
    /\ WF_vars(Tick)
    /\ WF_vars(SendTask(1))
    /\ WF_vars(WrapperCheck(1))
    /\ WF_vars(WrapperCall(1, "ok"))
    /\ WF_vars(WrapperSet(1))

SpecLost == LostInit /\ [][LostNext]_vars /\ LostFairness

\* a mutant of LocalRecv: the batch is flushed only when it is longer than
\* the limit
LocalRecvFlushingLate(topic) ==
    /\ running
    /\ localPc = "run"
    /\ localCh = "open"
    /\ nLocal < MaxLocal
    /\ nLocal' = nLocal + 1
    /\ LET batch == Append(batchRawMessages, RawMessageEntry(topic, nLocal + 1)) IN
       IF Len(batch) > LocalBatchMax
       THEN /\ QueueHasRoom
            /\ taskQueue' = Append(taskQueue, taskOnLocalBatch(batch))
            /\ batchRawMessages' = <<>>
       ELSE /\ batchRawMessages' = batch
            /\ UNCHANGED taskQueue
    /\ UNCHANGED <<config, rpcVars, syncVars, localCh, localPc, localErr, streamSent, apiErr,
                   doneCh, loopVars, regVars, acks, streamVars, sendCh, poolVars,
                   repeated, histVars>>

\* receiveLocalMessage, case entry, ok := <-localCh with ok: the entry is
\* appended to the batch, and a batch that has reached the limit is scheduled
\* with scheduleTaskBlocking (which waits while the queue is full)
LocalRecv(topic) ==
    /\ running
    /\ localPc = "run"
    /\ localCh = "open"
    /\ nLocal < MaxLocal
    /\ nLocal' = nLocal + 1
    /\ LET batch == Append(batchRawMessages, RawMessageEntry(topic, nLocal + 1)) IN
       IF Len(batch) >= LocalBatchMax
       THEN /\ QueueHasRoom
            /\ taskQueue' = Append(taskQueue, taskOnLocalBatch(batch))
            /\ batchRawMessages' = <<>>
       ELSE /\ batchRawMessages' = batch
            /\ UNCHANGED taskQueue
    /\ UNCHANGED <<config, rpcVars, syncVars, localCh, localPc, localErr, streamSent, apiErr,
                   doneCh, loopVars, regVars, acks, streamVars, sendCh, poolVars,
                   repeated, histVars>>

\* receiveLocalMessage, case <-ticker.C: sendTaskBlocking returns at once on
\* an empty batch and schedules a non-empty one
LocalTick ==
    /\ running
    /\ localPc = "run"
    /\ IF batchRawMessages = <<>>
       THEN UNCHANGED <<taskQueue, batchRawMessages>>
       ELSE /\ QueueHasRoom
            /\ taskQueue' = Append(taskQueue, taskOnLocalBatch(batchRawMessages))
            /\ batchRawMessages' = <<>>
    /\ UNCHANGED <<config, rpcVars, syncVars, localCh, localPc, localErr, nLocal, streamSent,
                   apiErr, doneCh, loopVars, regVars, acks, streamVars, sendCh,
                   poolVars, repeated, histVars>>

\* the owner of the local channel closes it
LocalClose ==
    /\ localCh = "open"
    /\ localCh' = "closed"
    /\ UNCHANGED <<config, rpcVars, syncVars, batchRawMessages, localPc, localErr, nLocal,
                   streamSent, apiErr, doneCh, loopVars, taskQueue, regVars, acks,
                   streamVars, sendCh, poolVars, repeated, histVars>>

\* receiveLocalMessage, case entry, ok := <-localCh with !ok: the loop ends
\* with ErrPeerMessageServerClosed
LocalReturn ==
    /\ localPc = "run"
    /\ localCh = "closed"
    /\ localPc' = "returned"
    /\ localErr' = ErrServerClosed
    /\ UNCHANGED <<config, rpcVars, syncVars, localCh, batchRawMessages, nLocal, streamSent,
                   apiErr, doneCh, loopVars, taskQueue, regVars, acks, streamVars,
                   sendCh, poolVars, repeated, histVars>>

\* One peer sends a message while the local channel delivers up to MaxLocal
\* entries of two topics; topic t1 gets a handler, whose callback may fail.
LocalInit == InitWith(Config(1, 2, 2, 1))

LocalNext ==
    \/ OpenStream(1, "p1", 1)
    \/ RecvRegister(1)
    \/ nRecv = 0 /\ RecvBatch(1, <<Entry("t1", 1)>>)
    \/ SendTask(1)
    \/ nextHandle = 1 /\ AddHandler("t1")
    \/ ProcessTask
    \/ Tick
    \/ WrapperCheck(1)
    \/ WrapperCall(1, "ok")
    \/ WrapperSet(1)
    \/ \E o \in {"ok", "fn"} : WrapperLocal(1, o)
    \/ \E t \in Topics : LocalRecv(t)
    \/ LocalTick
    \/ LocalClose
    \/ LocalReturn

SpecLocal == LocalInit /\ [][LocalNext]_vars

\* One sender keeps the task queue, which holds one task, busy while the
\* callback of the handler of t1 may fail.
ExitInit == InitWith(Config(1, 2, 1, 1))

ExitNext ==
    \/ OpenStream(1, "p1", 1)
    \/ RecvRegister(1)
    \/ \E q \in 1..MaxRecv : nRecv = q - 1 /\ RecvBatch(1, <<Entry("t1", q)>>)
    \/ RecvEnd(1)
    \/ SendTask(1)
    \/ nextHandle = 1 /\ AddHandler("t1")
    \/ ProcessTask
    \/ Tick
    \/ WrapperCheck(1)
    \/ \E o \in Outcomes : WrapperCall(1, o)
    \/ WrapperSet(1)

\* run takes the tasks of its queue one after the other
ExitFairness == WF_vars(ProcessTask)

SpecExit == ExitInit /\ [][ExitNext]_vars /\ ExitFairness

\* Sender p1 opens two streams, each with either epoch; stream 1 sends only
\* sequence 1 and stream 2 only sequence 2 of topic t1.
DupInit == InitWith(Config(1, 2, 2, 1))

DupNext ==
    \/ \E h \in 1..2, e \in Epochs : OpenStream(h, "p1", e)
    \/ \E h \in 1..2 : RecvRegister(h)
    \/ \E h \in 1..2 : RecvBatch(h, <<Entry("t1", h)>>)
    \/ \E h \in 1..2 : SendTask(h)
    \/ nextHandle = 1 /\ AddHandler("t1")
    \/ ProcessTask
    \/ Tick
    \/ WrapperCheck(1)
    \/ WrapperCall(1, "ok")
    \/ WrapperSet(1)

SpecDup == DupInit /\ [][DupNext]_vars

\* A caller adds a handler, removes it with SyncRemoveHandler and, once that
\* call has returned without an error, adds a handler for the topic again,
\* while a sender goes on sending messages of the topic.
SwapInit == InitWith(Config(1, 1, 2, 1))

SwapNext ==
    \/ OpenStream(1, "p1", 1)
    \/ RecvRegister(1)
    \/ \E q \in 1..MaxRecv : nRecv = q - 1 /\ RecvBatch(1, <<Entry("t1", q)>>)
    \/ RecvEnd(1)
    \/ SendTask(1)
    \/ nextHandle = 1 /\ AddHandler("t1")
    \/ nextHandle = 2 /\ SyncRemoveHandler("t1")
    \/ nextHandle = 2 /\ syncPc = "returned" /\ syncErr = NoErr /\ AddHandler("t1")
    \/ ProcessTask
    \/ Tick
    \/ Unregistered(1)
    \/ SyncDone
    \/ SyncClosed
    \/ RunCancelled
    \/ RunReturns
    \/ \E hd \in Handles : WrapperCheck(hd)
    \/ \E hd \in Handles : WrapperCall(hd, "ok")
    \/ \E hd \in Handles : WrapperSet(hd)

SpecSwap == SwapInit /\ [][SwapNext]_vars

\* One sender reconnects: its first stream carries message 1 of the topic and
\* ends or is deregistered, its second stream, of any epoch, carries messages
\* with any sequence.
ReconnInit == InitWith(Config(1, 2, 2, 1))

ReconnNext ==
    \/ \E h \in 1..2, e \in Epochs : OpenStream(h, "p1", e)
    \/ \E h \in 1..2 : RecvRegister(h)
    \/ nRecv = 0 /\ RecvBatch(1, <<Entry("t1", 1)>>)
    \/ \E q \in Seqs : nRecv > 0 /\ RecvBatch(2, <<Entry("t1", q)>>)
    \/ RecvEnd(1)
    \/ \E h \in 1..2 : SendTask(h)
    \/ ScheduleDeregisterPeerTask("p1")
    \/ nextHandle = 1 /\ AddHandler("t1")
    \/ ProcessTask
    \/ Tick
    \/ WrapperCheck(1)
    \/ WrapperCall(1, "ok")
    \/ WrapperSet(1)

SpecReconn == ReconnInit /\ [][ReconnNext]_vars

\* One sender registers, sends at most LiveRecv messages and its stream ends,
\* while run, its ticker, the pool and the send goroutine go on.
GoneInit == InitWith(Config(1, 2, 2, 1))

GoneNext ==
    \/ OpenStream(1, "p1", 1)
    \/ RecvRegister(1)
    \/ \E q \in 1..LiveRecv : nRecv = q - 1 /\ RecvBatch(1, <<Entry("t1", q)>>)
    \/ RecvEnd(1)
    \/ SendTask(1)
    \/ nextHandle = 1 /\ AddHandler("t1")
    \/ ProcessTask
    \/ Tick
    \/ WrapperCheck(1)
    \/ WrapperCall(1, "ok")
    \/ WrapperSet(1)

GoneFairness ==
    /\ WF_vars(ProcessTask)
    /\ WF_vars(Tick)
    /\ WF_vars(SendTask(1))
    /\ WF_vars(WrapperCheck(1))
    /\ WF_vars(WrapperCall(1, "ok"))
    /\ WF_vars(WrapperSet(1))

SpecGone == GoneInit /\ [][GoneNext]_vars /\ GoneFairness

\* A caller adds and removes handlers with the Sync calls while a peer
\* registers and the root context may be cancelled at any time.
SyncInit == InitWith(Config(1, 1, 2, 1))

SyncNext ==
    \/ OpenStream(1, "p1", 1)
    \/ RecvRegister(1)
    \/ nextHandle = 1 /\ SyncAddHandler("t1")
    \/ \E t \in Topics : SyncRemoveHandler(t)
    \/ ProcessTask
    \/ Unregistered(1)
    \/ SyncDone
    \/ SyncClosed
    \/ RunCancelled
    \/ RunReturns

\* run takes its tasks, the unregister goroutine ends, Run returns once run
\* has, and a select with a ready case is left
SyncFairness ==
    /\ WF_vars(ProcessTask)
    /\ WF_vars(Unregistered(1))
    /\ WF_vars(RunReturns)
    /\ WF_vars(SyncDone)
    /\ WF_vars(SyncClosed)

SpecSync == SyncInit /\ [][SyncNext]_vars /\ SyncFairness

\* the IDs a StreamMeta may name as receiver
Receivers == {serverID, "s1"}

\* the errors of the package, with small arguments
Errors ==
    {ErrTopicCongested, ErrTaskQueueCongested, ErrIllegalMeta, ErrServerClosed,
     ErrInternalSenderClosed, ErrHandleCancelled, ErrDecode, ErrCallback, ErrRecv}
    \cup {ErrStaleConnection(old, new) : old \in Epochs, new \in Epochs}
    \cup {ErrDuplicateConnection(e) : e \in Epochs}
    \cup {ErrTooManyPeers(c) : c \in 1..NumStreams}
    \cup {ErrDataLost(t, q) : t \in Topics, q \in Seqs}
    \cup {ErrReceiverMismatch(serverID, r) : r \in Receivers \ {serverID}}

\* peer.sender.Send(ctx, errorToRPCResponse(err)), as abort and run do it
SendError(h, err) ==
    /\ Alive
    /\ LET R == Send(St, h, errorToRPCResponse(err)) IN
       /\ ~R.blocked
       /\ ~IsErr(R.err)
       /\ Commit(R)
    /\ UNCHANGED <<config, rpcVars, syncVars, localVars, streamSent, apiErr, running, taskErr,
                   taskQueue, acks, streamVars, hTopic, hPc, hCur, hErr, nextHandle,
                   repeated, histVars>>

\* the Meta of the first packet of a stream: nil, or a StreamMeta
PacketMeta(isNil, receiver, sender, epoch) ==
    [nil |-> isNil, receiver |-> receiver, sender |-> sender, epoch |-> epoch]
NilMeta == PacketMeta(TRUE, "", "", 0)
PacketMetas ==
    {NilMeta} \cup {PacketMeta(FALSE, r, n, e) :
                        r \in Receivers, n \in {"p1"}, e \in Epochs}

\* a mutant of verifyStreamMeta: the receiver ID is not compared
verifyStreamMetaAnyReceiver(streamMeta) ==
    IF streamMeta.nil THEN ErrIllegalMeta ELSE NoErr

verifyStreamMeta(streamMeta) ==
    IF streamMeta.nil THEN ErrIllegalMeta
    ELSE IF streamMeta.receiver # serverID
    THEN ErrReceiverMismatch(serverID, streamMeta.receiver)
    ELSE NoErr

\* SendMessage, up to the start of the receive task: the first packet is
\* read and its Meta verified; a rejected Meta is answered on the stream
\* itself and the call returns
SendMessage(h, packetMeta) ==
    LET err == verifyStreamMeta(packetMeta) IN
    IF IsErr(err)
    THEN /\ stPc[h] = "idle"
         /\ \A g \in Streams : g < h => stPc[g] # "idle"
         /\ streamSent' = [streamSent EXCEPT ![h] = Append(@, errorToRPCResponse(err))]
         /\ stPc' = [stPc EXCEPT ![h] = "returned"]
         /\ UNCHANGED <<config, rpcVars, syncVars, localVars, apiErr, doneCh, loopVars,
                        taskQueue, regVars, acks, stMeta, isClosed, sendCh,
                        poolVars, repeated, histVars>>
    ELSE OpenStream(h, packetMeta.sender, packetMeta.epoch)

\* ------------------------------------------- the RPC handler and its tasks
\* The transport calls SendMessage for a new stream; the handler blocks in its
\* first stream.Recv. The first packet is then read by SendMessage above.
RpcCall(h) ==
    /\ rpcPc[h] = "none"
    /\ stPc[h] = "idle"
    /\ \A g \in Streams : g < h => rpcPc[g] # "none"
    /\ rpcPc' = [rpcPc EXCEPT ![h] = "called"]
    /\ UNCHANGED <<config, syncVars, localVars, streamSent, apiErr, doneCh, loopVars,
                   taskQueue, regVars, acks, streamVars, sendCh, poolVars, repeated,
                   histVars, sendPc, streamCtx>>

\* where the handler of a called stream is: in its first stream.Recv, or in
\* the select at its end, after the two goroutines were started
InFirstRecv(h) == rpcPc[h] = "called" /\ stPc[h] = "idle"
InSelect(h) == rpcPc[h] = "called" /\ stPc[h] \in {"register", "recv", "closed"}

\* the handler has returned: from the select, because the first Recv failed,
\* or because the first packet's Meta was rejected
Returned(h) == rpcPc[h] = "returned" \/ (rpcPc[h] = "called" /\ stPc[h] = "returned")

\* the first stream.Recv returns an error and SendMessage returns it
RecvFirstFails(h) ==
    /\ InFirstRecv(h)
    /\ rpcPc' = [rpcPc EXCEPT ![h] = "returned"]
    /\ UNCHANGED <<config, syncVars, localVars, streamSent, apiErr, doneCh, loopVars,
                   taskQueue, regVars, acks, streamVars, sendCh, poolVars, repeated,
                   histVars, sendPc, streamCtx>>

\* the select at the end of SendMessage: ctx.Done or m.closeCh; the deferred
\* cancel runs as the handler returns
RpcReturn(h) ==
    /\ InSelect(h)
    /\ streamCtx[h] # "live" \/ closeCh = "closed"
    /\ rpcPc' = [rpcPc EXCEPT ![h] = "returned"]
    /\ streamCtx' = [streamCtx EXCEPT ![h] = IF @ = "live" THEN "cancelled" ELSE @]
    /\ UNCHANGED <<config, syncVars, localVars, streamSent, apiErr, doneCh, loopVars,
                   taskQueue, regVars, acks, streamVars, sendCh, poolVars, repeated,
                   histVars, sendPc>>

\* the transport ends the stream (the client is gone, the connection broke):
\* stream.Context() is done, and with it ctx
StreamBreaks(h) ==
    /\ stPc[h] \in {"register", "recv", "closed"}
    /\ streamCtx[h] # "broken"
    /\ streamCtx' = [streamCtx EXCEPT ![h] = "broken"]
    /\ UNCHANGED <<config, syncVars, localVars, streamSent, apiErr, doneCh, loopVars,
                   taskQueue, regVars, acks, streamVars, sendCh, poolVars, repeated,
                   histVars, rpcPc, sendPc>>

\* the send goroutine of a stream is in its loop
SendRuns(h) == sendPc[h] = "run" /\ stPc[h] \in {"register", "recv", "closed"}

\* the send goroutine takes a response, rl.Wait lets it pass and stream.Send
\* writes it
SendOk(h) ==
    /\ SendRuns(h)
    /\ streamCtx[h] = "live"
    /\ SendTask(h)

\* the send goroutine takes a response and rl.Wait(ctx) or stream.Send
\* returns an error, which happens once ctx is done or the stream has ended:
\* the goroutine returns the error, cancel is not called
SendFails(h) ==
    /\ SendRuns(h)
    /\ streamCtx[h] # "live"
    /\ sendCh[h] # <<>>
    /\ sendCh' = [sendCh EXCEPT ![h] = Tail(@)]
    /\ sendPc' = [sendPc EXCEPT ![h] = "exited"]
    /\ UNCHANGED <<config, syncVars, localVars, streamSent, apiErr, doneCh, loopVars,
                   taskQueue, regVars, acks, streamVars, poolVars, repeated,
                   histVars, rpcPc, streamCtx>>

\* a mutant of SendSeesClosed: the goroutine returns without calling cancel
SendSeesClosedNotCancelling(h) ==
    /\ SendRuns(h)
    /\ isClosed[h]
    /\ sendCh[h] = <<>>
    /\ sendPc' = [sendPc EXCEPT ![h] = "exited"]
    /\ UNCHANGED <<config, syncVars, localVars, streamSent, apiErr, doneCh, loopVars,
                   taskQueue, regVars, acks, streamVars, sendCh, poolVars, repeated,
                   histVars, rpcPc, streamCtx>>

\* the send goroutine finds sendCh closed and empty: cancel(), return nil
SendSeesClosed(h) ==
    /\ SendRuns(h)
    /\ isClosed[h]
    /\ sendCh[h] = <<>>
    /\ sendPc' = [sendPc EXCEPT ![h] = "exited"]
    /\ streamCtx' = [streamCtx EXCEPT ![h] = IF @ = "live" THEN "cancelled" ELSE @]
    /\ UNCHANGED <<config, syncVars, localVars, streamSent, apiErr, doneCh, loopVars,
                   taskQueue, regVars, acks, streamVars, sendCh, poolVars, repeated,
                   histVars, rpcPc>>

\* the send goroutine, case <-ctx.Done()
SendSeesDone(h) ==
    /\ SendRuns(h)
    /\ streamCtx[h] # "live"
    /\ sendPc' = [sendPc EXCEPT ![h] = "exited"]
    /\ UNCHANGED <<config, syncVars, localVars, streamSent, apiErr, doneCh, loopVars,
                   taskQueue, regVars, acks, streamVars, sendCh, poolVars, repeated,
                   histVars, rpcPc, streamCtx>>

\* One stream from its call to the return of its handler, with the server
\* running, ticking and being shut down.
StreamInit == InitWith(Config(1, 1, 1, 1))

StreamNext ==
    \/ RpcCall(1)
    \/ RecvFirstFails(1)
    \/ \E pm \in PacketMetas : rpcPc[1] = "called" /\ SendMessage(1, pm)
    \/ RecvRegister(1)
    \/ nRecv = 0 /\ RecvBatch(1, <<Entry("t1", 1)>>)
    \/ RecvEnd(1)
    \/ SendOk(1)
    \/ SendFails(1)
    \/ SendSeesClosed(1)
    \/ SendSeesDone(1)
    \/ StreamBreaks(1)
    \/ RpcReturn(1)
    \/ nextHandle = 1 /\ AddHandler("t1")
    \/ ProcessTask
    \/ Tick
    \/ WrapperCheck(1)
    \/ WrapperCall(1, "ok")
    \/ WrapperSet(1)
    \/ RunCancelled
    \/ RunReturns

\* The send goroutine and the handler take a ready case of their select, a
\* stream.Send on a live stream completes, and Run returns once run has.
StreamFairness ==
    /\ WF_vars(SendOk(1))
    /\ WF_vars(SendSeesClosed(1))
    /\ WF_vars(RpcReturn(1))
    /\ WF_vars(RunReturns)

SpecStream == StreamInit /\ [][StreamNext]_vars /\ StreamFairness

\* Streams open with any first packet; the accepted ones register, and one
\* of them sends a batch.
MetaInit == InitWith(Config(1, 1, 1, 1))

MetaNext ==
    \/ \E h \in Streams, pm \in PacketMetas : SendMessage(h, pm)
    \/ \E h \in Streams : RecvRegister(h)
    \/ \E h \in Streams : nRecv = 0 /\ RecvBatch(h, <<Entry("t1", 1)>>)
    \/ \E h \in Streams : SendTask(h)
    \/ ProcessTask
    \/ Tick

SpecMeta == MetaInit /\ [][MetaNext]_vars

\* Every error of the package is turned into a response on one of two
\* streams, and the responses are written out.
ErrInit == InitWith(Config(1, 1, 1, 1))

ErrNext ==
    \/ \E h \in 1..2, err \in Errors : SendError(h, err)
    \/ \E h \in 1..2 : SendTask(h)

SpecErr == ErrInit /\ [][ErrNext]_vars

\* ------------------------------------------------------------------ claims
HeadEvent(hd) == Head(hQueue[hd])
HeadLastAck(hd) == acks[HeadEvent(hd).meta.sender][HeadEvent(hd).entry.topic]
CurLastAck(hd) == acks[hCur[hd].meta.sender][hCur[hd].entry.topic]

\* C1: whenever the user callback is invoked for an event of (sender, topic)
\* while the lastAck of that pair is not initAck, the event carries exactly
\* the sequence lastAck + 1.
C1_CallbackCarriesNextSequence ==
    [][\A hd \in Handles, o \in {"ok", "fn"} :
         (WrapperCall(hd, o) /\ CurLastAck(hd) # initAck)
            => hCur[hd].entry.seq = CurLastAck(hd) + 1]_vars

C3_GapReturnsDataLost ==
    [][\A hd \in Handles :
         (/\ WrapperCheck(hd)
          /\ HeadLastAck(hd) # initAck
          /\ HeadEvent(hd).entry.seq > HeadLastAck(hd) + 1)
            => /\ hErr'[hd] = ErrDataLost(HeadEvent(hd).entry.topic, HeadLastAck(hd) + 1)
               /\ hStatus'[hd] = "failed"
               /\ hPc'[hd] = "idle"
               /\ acks' = acks
               /\ cbInvoked' = cbInvoked]_vars

C3_Witness ==
    \E hd \in Handles :
       /\ hStatus[hd] = "failed"
       /\ hErr[hd] = ErrDataLost("t1", acks["p1"]["t1"] + 1)
       /\ acks["p1"]["t1"] # initAck

\* C4: the lastAck stored for a (sender, topic) never decreases.
C4_LastAckNeverDecreases ==
    [][\A n \in Nodes, t \in Topics : acks'[n][t] >= acks[n][t]]_vars

\* the acks of the responses waiting on the send channel of a stream handle
SentAcks(h) == UNION {sendCh[h][i].acks : i \in 1..Len(sendCh[h])}

\* C5, as stated: every ack sent to a peer is for a sequence the callback
\* returned success for, and when the sender has sent exactly the sequences
\* 1..N, each once and in order, and is sent the ack N, the callback has been
\* invoked exactly N times.
C5_AckedCountsInvocations ==
    \A h \in Streams : \A a \in SentAcks(h) :
       /\ a.seq \in cbOk[PeerID(h)][a.topic]
       /\ sentUpTo[PeerID(h)][a.topic] = a.seq
             => cbInvoked[PeerID(h)][a.topic] = a.seq

\* C5, amended: every ack sent to a peer is for a sequence for which the
\* callback of that (sender, topic) was invoked and returned success.
C5_AckedWasDelivered ==
    \A h \in Streams : \A a \in SentAcks(h) :
       /\ a.seq \in cbOk[PeerID(h)][a.topic]
       /\ cbInvoked[PeerID(h)][a.topic] >= 1

C5_Witness ==
    \E h \in Streams : Entry("t1", 2) \in SentAcks(h) /\ cbOk["p1"]["t1"] = {1, 2}

\* the peer is registered, its stream handle is open and run is looping
Served(n) == Alive /\ peers[n] # 0 /\ ~isClosed[peers[n]]

\* a response with exit reason OK and an ack (t, m), m >= q, is on the send
\* channel of a stream handle of the peer
AckEnqueued(n, t, q) ==
    \E h \in Streams :
       /\ PeerID(h) = n
       /\ \E i \in 1..Len(sendCh[h]) :
             /\ sendCh[h][i].exit = "OK"
             /\ \E a \in sendCh[h][i].acks : a.topic = t /\ a.seq >= q

\* C6: once the callback has succeeded for sequence q of (p, t), a tick
\* enqueues to p a response with exit reason OK and an ack (t, m), m >= q,
\* unless p does not stay registered with an open stream handle.
C6_AckFollowsDelivery ==
    \A q \in 1..LiveSeq :
       (q \in cbOk["p1"]["t1"]) ~> (AckEnqueued("p1", "t1", q) \/ ~Served("p1"))

\* C7: every entry of the peer registry is filed under the ID of its peer and
\* is a valid peer.
C7_RegistryEntriesValid ==
    \A n \in Nodes :
       peers[n] # 0 => PeerID(peers[n]) = n /\ peerObj[peers[n]] = "valid"

C7_Witness ==
    \E h \in Streams :
       /\ peerObj[h] = "invalid"
       /\ peers[PeerID(h)] \notin {0, h}
       /\ \E n \in Nodes : n # PeerID(h) /\ peers[n] # 0

\* run takes taskOnRegisterPeer(h) from the queue while the registry holds an
\* entry for the sender of h
RegistersKnown(h) ==
    /\ taskQueue # <<>>
    /\ Head(taskQueue) = taskOnRegisterPeer(h)
    /\ peers[PeerID(h)] # 0
    /\ ProcessTask

StaleResponse(old, new) == errorToRPCResponse(ErrStaleConnection(old, new))

\* C8, as stated: when OnRegisterPeer of a stream with epoch E is processed
\* while the registry holds the sender with a smaller epoch E', the old peer
\* is removed and marked invalid, a STALE_CONNECTION response with
\* ErrStaleConnection(E', E) is put on the old stream handle, and the registry
\* maps the sender to a valid peer of the new stream handle.
C8_SupersedeSendsStale ==
    [][\A h \in Streams :
         (RegistersKnown(h) /\ PeerEpoch(peers[PeerID(h)]) < PeerEpoch(h))
            => LET old == peers[PeerID(h)] IN
               /\ peerObj'[old] = "invalid"
               /\ \A n \in Nodes : peers'[n] # old
               /\ peers'[PeerID(h)] = h
               /\ peerObj'[h] = "valid"
               /\ sendCh'[old] = Append(sendCh[old],
                                        StaleResponse(PeerEpoch(old), PeerEpoch(h)))]_vars

\* C8, amended: the same, but the STALE_CONNECTION response is put on the old
\* stream handle only when that handle is not closed; on a closed handle
\* nothing is sent.
C8_SupersedeSendsStaleIfOpen ==
    [][\A h \in Streams :
         (RegistersKnown(h) /\ PeerEpoch(peers[PeerID(h)]) < PeerEpoch(h))
            => LET old == peers[PeerID(h)] IN
               /\ peerObj'[old] = "invalid"
               /\ \A n \in Nodes : peers'[n] # old
               /\ peers'[PeerID(h)] = h
               /\ peerObj'[h] = "valid"
               /\ sendCh'[old] = IF isClosed[old] THEN sendCh[old]
                                 ELSE Append(sendCh[old],
                                        StaleResponse(PeerEpoch(old), PeerEpoch(h)))]_vars

C8_Witness ==
    \E old, h \in Streams :
       /\ PeerID(old) = PeerID(h)
       /\ PeerEpoch(old) < PeerEpoch(h)
       /\ peers[PeerID(h)] = h
       /\ peerObj[old] = "invalid"
       /\ ~isClosed[old]
       /\ sendCh[old] = <<StaleResponse(PeerEpoch(old), PeerEpoch(h))>>

\* C9: OnRegisterPeer of a stream with epoch E processed while the registry
\* holds the sender with an epoch E' >= E returns ErrStaleConnection(E, E')
\* when E' > E and ErrDuplicateConnection(E) when E' = E, and leaves the
\* registry, the peers in it and their stream handles as they were.
C9_RejectLeavesRegistry ==
    [][\A h \in Streams :
         (RegistersKnown(h) /\ PeerEpoch(peers[PeerID(h)]) >= PeerEpoch(h))
            => /\ taskErr' = IF PeerEpoch(peers[PeerID(h)]) > PeerEpoch(h)
                             THEN ErrStaleConnection(PeerEpoch(h),
                                                     PeerEpoch(peers[PeerID(h)]))
                             ELSE ErrDuplicateConnection(PeerEpoch(h))
               /\ peers' = peers
               /\ peerObj' = peerObj
               /\ stMeta' = stMeta]_vars

C9_Witness ==
    \E h \in Streams :
       /\ PeerID(h) \in Nodes
       /\ peers[PeerID(h)] \notin {0, h}
       /\ peerObj[peers[PeerID(h)]] = "valid"
       /\ peerObj[h] = "none"
       /\ \/ /\ PeerEpoch(peers[PeerID(h)]) > PeerEpoch(h)
             /\ taskErr = ErrStaleConnection(PeerEpoch(h), PeerEpoch(peers[PeerID(h)]))
             /\ sendCh[h] = <<StaleResponse(PeerEpoch(h), PeerEpoch(peers[PeerID(h)]))>>
          \/ /\ PeerEpoch(peers[PeerID(h)]) = PeerEpoch(h)
             /\ taskErr = ErrDuplicateConnection(PeerEpoch(h))

\* C10: the number of peers in the registry never exceeds MaxPeerCount.
C10_PeerCountWithinMax == PeerCount(St) <= config.MaxPeerCount

\* run takes a task of the given type from the queue
Takes(type) ==
    /\ taskQueue # <<>>
    /\ Head(taskQueue).type = type
    /\ ProcessTask

\* C11: an OnRegisterPeer rejected with ErrTooManyPeers leaves run looping
\* and puts an error response with exit reason UNKNOWN on the stream handle
\* of the rejected sender.
C11_TooManyPeersNotFatal ==
    [][(Takes("OnRegisterPeer") /\ taskErr'.kind = "TooManyPeers")
          => /\ running'
             /\ sendCh'[Head(taskQueue).h] =
                   Append(sendCh[Head(taskQueue).h], errorToRPCResponse(taskErr'))]_vars

\* C12: an OnRegisterPeer rejected as stale or duplicate never makes run
\* return, whatever the state of the offending stream handle.
C12_RejectNeverStopsRun ==
    [][\A h \in Streams :
         (RegistersKnown(h) /\ PeerEpoch(peers[PeerID(h)]) >= PeerEpoch(h))
            => running']_vars

\* C13: the pending buffer holds at most MaxPendingMessageCountPerTopic
\* entries under any key.
C13_PendingWithinMax ==
    \A k \in Topics \X Nodes :
       Len(pending[k]) <= config.MaxPendingMessageCountPerTopic

\* the message at the head of the task queue is one entry of a registered,
\* valid peer for a topic without handler
BuffersMessage(n, t) ==
    /\ taskQueue # <<>>
    /\ Head(taskQueue).type = "OnMessageBatch"
    /\ Head(taskQueue).meta.sender = n
    /\ Len(Head(taskQueue).entries) = 1
    /\ Head(taskQueue).entries[1].topic = t
    /\ handlers[t] = 0
    /\ peers[n] # 0
    /\ PeerEpoch(peers[n]) = Head(taskQueue).meta.epoch
    /\ peerObj[peers[n]] = "valid"

\* C14: with no handler for t and M = MaxPendingMessageCountPerTopic, the
\* (M+1)-th message of a registered peer on t deletes the pending key
\* (t, sender) and removes the peer from the registry.
C14_MessageAfterMaxCongests ==
    [][\A n \in Nodes, t \in Topics :
         (/\ BuffersMessage(n, t)
          /\ Len(pending[<<t, n>>]) = config.MaxPendingMessageCountPerTopic
          /\ ProcessTask)
            => pending'[<<t, n>>] = <<>> /\ peers'[n] = 0]_vars

\* the events of sender n in a queue, in the order of the queue
EventsOf(q, n) == SelectSeq(q, LAMBDA ev : ev.meta.sender = n)

\* the stream the event came from is the one registered for its sender
Current(meta) ==
    /\ peers[meta.sender] # 0
    /\ PeerEpoch(peers[meta.sender]) = meta.epoch
    /\ peerObj[peers[meta.sender]] = "valid"

\* run takes taskOnRegisterHandler for a topic without handler
RegistersHandler ==
    /\ taskQueue # <<>>
    /\ Head(taskQueue).type = "OnRegisterHandler"
    /\ handlers[Head(taskQueue).topic] = 0
    /\ ProcessTask

\* C15, as stated: when a handler is registered, the entries buffered under
\* every (topic, sender) key are submitted to the handler in the order they
\* were buffered, and every key of the topic is removed.
C15_PendingAllSubmitted ==
    [][RegistersHandler
          => \A n \in Nodes :
                /\ EventsOf(hQueue'[Head(taskQueue).hd], n)
                      = pending[<<Head(taskQueue).topic, n>>]
                /\ pending'[<<Head(taskQueue).topic, n>>] = <<>>]_vars

\* C15, amended: of the entries buffered under a key, those whose stream is
\* still the one registered for the sender are submitted to the handler in
\* the order they were buffered, the others are dropped, and every key of
\* the topic is removed.
C15_PendingOfCurrentSubmitted ==
    [][RegistersHandler
          => \A n \in Nodes :
                /\ EventsOf(hQueue'[Head(taskQueue).hd], n)
                      = SelectSeq(pending[<<Head(taskQueue).topic, n>>],
                                  LAMBDA ev : Current(ev.meta))
                /\ pending'[<<Head(taskQueue).topic, n>>] = <<>>]_vars

C15_Witness ==
    \E hd \in Handles :
       /\ handlers["t1"] = hd
       /\ hPc[hd] = "idle"
       /\ cbInvoked["p1"]["t1"] = 0
       /\ Len(hQueue[hd]) = 2
       /\ hQueue[hd][1].entry.seq = 2
       /\ hQueue[hd][2].entry.seq = 1
       /\ pending[<<"t1", "p1">>] = <<>>

\* C16, as stated: after an epoch preemption no message of the old stream
\* reaches the callback.
C16_NoDeliveryFromOldStream ==
    [][\A hd \in Handles, o \in {"ok", "fn"} :
         WrapperCall(hd, o)
            => ~(/\ peers[hCur[hd].meta.sender] # 0
                 /\ PeerEpoch(peers[hCur[hd].meta.sender]) > hCur[hd].meta.epoch)]_vars

\* C16, amended: a message batch whose sender is not in the registry, or
\* whose epoch differs from the epoch of the registered peer, is dropped when
\* run processes it: nothing is submitted to a handler or buffered and no
\* peer is deregistered or sent anything; and a buffered entry of such a
\* stream is not submitted when a handler is registered.
C16_MessageOfUnknownStreamDropped ==
    [][/\ (/\ Takes("OnMessageBatch")
           /\ \/ peers[Head(taskQueue).meta.sender] = 0
              \/ PeerEpoch(peers[Head(taskQueue).meta.sender])
                    # Head(taskQueue).meta.epoch)
          => /\ hQueue' = hQueue
             /\ pending' = pending
             /\ peers' = peers
             /\ peerObj' = peerObj
             /\ sendCh' = sendCh
       /\ RegistersHandler
          => \A i \in 1..Len(hQueue'[Head(taskQueue).hd]) :
                Current(hQueue'[Head(taskQueue).hd][i].meta)]_vars

C16_Witness ==
    /\ nRecv = 1
    /\ taskQueue = <<>>
    /\ \A k \in Topics \X Nodes : pending[k] = <<>>
    /\ \A hd \in Handles : hQueue[hd] = <<>> /\ hPc[hd] = "idle"
    /\ cbInvoked["p1"]["t1"] = 0
    /\ repeated = 0
    /\ sentUpTo["p1"]["t1"] = 1
    /\ \E h \in Streams : peers["p1"] = h /\ PeerEpoch(h) = 2 /\ stPc[h] = "recv"
    /\ \E h \in Streams : PeerID(h) = "p1" /\ PeerEpoch(h) = 1 /\ peerObj[h] = "invalid"
    /\ Alive

\* C20: processing OnRegisterHandler for a topic that has a handler stops the
\* process with the panic "duplicate handlers" and leaves the handler table
\* as it was.
C20_DuplicateHandlerPanics ==
    [][(/\ taskQueue # <<>>
        /\ Head(taskQueue).type = "OnRegisterHandler"
        /\ handlers[Head(taskQueue).topic] # 0
        /\ ProcessTask)
          => fault' = "duplicate handlers" /\ handlers' = handlers]_vars

C20_Witness ==
    /\ fault = "duplicate handlers"
    /\ handlers["t1"] = 1
    /\ hStatus[2] = "running"


\* C18: on each tick, for every registered peer: when the ack table holds no
\* entry for the peer nothing is put on its stream handle, otherwise exactly
\* one response is put on it, with exit reason OK and one ack for every topic
\* that has an entry, carrying the current lastAck. (As stated: whatever the
\* state of the stream handle.)
C18_TickSendsOneResponse ==
    [][(Alive /\ Tick)
         => \A n \in Nodes :
              peers[n] # 0
                => sendCh'[peers[n]] =
                      IF PeerAcks(n) = {} THEN sendCh[peers[n]]
                      ELSE Append(sendCh[peers[n]], AckResponse(PeerAcks(n)))]_vars

\* C18, amended: the same, for the peers whose stream handle is not closed; a
\* peer whose stream handle is closed gets nothing.
C18_TickSendsOneResponseIfOpen ==
    [][(Alive /\ Tick)
         => \A n \in Nodes :
              peers[n] # 0
                => sendCh'[peers[n]] =
                      IF PeerAcks(n) = {} \/ isClosed[peers[n]] THEN sendCh[peers[n]]
                      ELSE Append(sendCh[peers[n]], AckResponse(PeerAcks(n)))]_vars

\* C18, witness: the response a tick sent to a peer with acks of two topics
\* is on the peer's send channel, while another registered peer has no acks
\* and nothing on its send channel.
C18_Witness ==
    \E n, o \in Nodes :
       /\ peers[n] # 0 /\ peers[o] # 0
       /\ Cardinality(PeerAcks(n)) = 2
       /\ sendCh[peers[n]] = <<AckResponse(PeerAcks(n))>>
       /\ PeerAcks(o) = {}
       /\ sendCh[peers[o]] = <<>>


\* a call of the API that uses the non-blocking scheduleTask
ApiCall ==
    \/ \E t \in Topics : AddHandler(t) \/ RemoveHandler(t)
    \/ \E n \in Nodes : ScheduleDeregisterPeerTask(n)

\* C17: a non-blocking enqueue (AddHandler, RemoveHandler,
\* ScheduleDeregisterPeerTask) on a task queue that holds MaxPendingTaskCount
\* tasks returns ErrTaskQueueCongested, adds no task and leaves the state of
\* the server (loop, registry, handler table, pending buffer, ack table, send
\* channels, done channels) unchanged; the queue never holds more than
\* MaxPendingTaskCount tasks.
C17_FullQueueRejects ==
    /\ [](Len(taskQueue) <= config.MaxPendingTaskCount)
    /\ [][(Len(taskQueue) = config.MaxPendingTaskCount /\ ApiCall)
            => /\ apiErr' = ErrTaskQueueCongested
               /\ UNCHANGED <<taskQueue, loopVars, regVars, acks, sendCh, doneCh>>]_vars

\* C17, witness: a call on a full queue has returned ErrTaskQueueCongested
C17_Witness ==
    /\ Len(taskQueue) = config.MaxPendingTaskCount
    /\ apiErr = ErrTaskQueueCongested

\* C19: processing OnDeregisterHandler for a topic that has no handler
\* changes neither the handler table nor the pending buffer, the peer
\* registry or the ack table, and closes the done channel of the task; so a
\* second removal of a handler changes nothing, and every done channel
\* RemoveHandler returned is closed in the end.
C19_DeregisterAbsentIsNoop ==
    /\ [][(Takes("OnDeregisterHandler") /\ handlers[Head(taskQueue).topic] = 0)
            => /\ UNCHANGED <<handlers, pending, peers, peerObj, acks>>
               /\ Head(taskQueue).done # 0
                    => doneCh'[Head(taskQueue).done] = "closed"]_vars
    /\ \A d \in Dones : (doneCh[d] = "open") ~> (doneCh[d] = "closed")

\* C19, witness: the handler of t1 was removed and has stopped, a second
\* removal found no handler for its topic, and both done channels are closed
C19_Witness ==
    /\ hStatus[1] = "stopped"
    /\ taskQueue = <<>>
    /\ \A d \in Dones : doneCh[d] = "closed"


\* C24: a peer that has been deregistered, by whatever path, has valid =
\* false: a cdcPeer that is valid is the one the registry holds for its
\* peer ID, so that at most one valid cdcPeer exists for a peer ID.
C24_DeregisteredPeerInvalid ==
    \A h \in Streams :
       peerObj[h] = "valid" => (PeerID(h) \in Nodes /\ peers[PeerID(h)] = h)


\* C25: a peer to which the tick's Send fails with InternalSenderClosed (it
\* has acks and its stream handle is closed) is removed from the registry in
\* that tick, with no response put on its stream handle and without abort;
\* every other registered peer stays registered.
C25_TickRemovesClosedSender ==
    [][(Alive /\ Tick)
         => \A n \in Nodes :
              peers[n] # 0
                => IF PeerAcks(n) # {} /\ isClosed[peers[n]]
                   THEN /\ peers'[n] = 0
                        /\ sendCh'[peers[n]] = sendCh[peers[n]]
                        /\ peerObj'[peers[n]] = peerObj[peers[n]]
                   ELSE peers'[n] = peers[n]]_vars

\* C25, witness: a tick has removed p1, whose stream handle is closed and
\* which has an ack, and has left p2 registered
C25_Witness ==
    /\ peers["p1"] = 0
    /\ peerObj[1] = "valid"
    /\ isClosed[1]
    /\ PeerAcks("p1") # {}
    /\ peers["p2"] = 2


\* run takes a batch of a registered sender whose first entry is for a topic
\* with a handler that does not take events any more
SubmitFails ==
    /\ Takes("OnMessageBatch")
    /\ Current(Head(taskQueue).meta)
    /\ handlers[Head(taskQueue).entries[1].topic] # 0
    /\ hStatus[handlers[Head(taskQueue).entries[1].topic]] # "running"

\* the response abort sends for the error of AddEvent
SubmitResponse == errorToRPCResponse(ErrHandleCancelled)

\* C26: when AddEvent fails for a remote message the sending peer is removed
\* from the registry, marked invalid and sent an error response built from
\* the error, and the later entries of the batch are dropped: nothing is
\* submitted or buffered. (As stated: whatever the state of the stream
\* handle.)
C26_SubmitFailureAbortsPeer ==
    [][SubmitFails
         => LET n == Head(taskQueue).meta.sender IN
            /\ peers'[n] = 0
            /\ peerObj'[peers[n]] = "invalid"
            /\ sendCh'[peers[n]] = Append(sendCh[peers[n]], SubmitResponse)
            /\ hQueue' = hQueue
            /\ pending' = pending]_vars

\* C26, amended: the same, the error response being sent when the stream
\* handle of the peer is not closed.
C26_SubmitFailureAbortsPeerIfOpen ==
    [][SubmitFails
         => LET n == Head(taskQueue).meta.sender IN
            /\ peers'[n] = 0
            /\ peerObj'[peers[n]] = "invalid"
            /\ sendCh'[peers[n]] =
                  IF isClosed[peers[n]] THEN sendCh[peers[n]]
                  ELSE Append(sendCh[peers[n]], SubmitResponse)
            /\ hQueue' = hQueue
            /\ pending' = pending]_vars

\* C26, witness: the packet of two entries met the cancelled handle: p1 is
\* deregistered and invalid, the error response is on its send channel, and
\* nothing of the packet is queued or buffered
C26_Witness ==
    /\ nRecv = 2
    /\ \A i \in 1..Len(taskQueue) : taskQueue[i].type # "OnMessageBatch"
    /\ hStatus[1] = "failed"
    /\ handlers["t1"] = 1
    /\ peers["p1"] = 0
    /\ peerObj[1] = "invalid"
    /\ sendCh[1] = <<SubmitResponse>>
    /\ hQueue[1] = <<>>
    /\ pending[<<"t1", "p1">>] = <<>>


\* a response with exit reason UNKNOWN is on the send channel of stream h
UnknownFrameQueued(h) ==
    \E i \in 1..Len(sendCh[h]) : sendCh[h][i].exit = "UNKNOWN"

\* C22: after the wrapper of a handle returned ErrDataLost for a message of
\* a sender, the handler of the topic is deregistered and an error response
\* with exit reason UNKNOWN is put on the stream handle of the sender. (The
\* claim also says what the message of the response refers to; the property
\* asks for less, a response with exit reason UNKNOWN of whatever message.)
C22_DataLostSignalsPeer ==
    \A hd \in Handles :
       (hErr[hd].kind = "DataLost")
          ~> (/\ \A t \in Topics : handlers[t] # hd
              /\ \E h \in Streams : UnknownFrameQueued(h))


\* the exit reason the claim gives for each kind of error
ExitReasonOf(kind) ==
    CASE kind \in {"TopicCongested", "TaskQueueCongested"} -> "CONGESTED"
      [] kind = "StaleConnection" -> "STALE_CONNECTION"
      [] kind = "ReceiverMismatch" -> "CAPTURE_ID_MISMATCH"
      [] OTHER -> "UNKNOWN"

\* C23: errorToRPCResponse gives every error a response: CONGESTED for
\* TopicCongested and TaskQueueCongested, STALE_CONNECTION for
\* StaleConnection, CAPTURE_ID_MISMATCH for ReceiverMismatch, UNKNOWN for
\* every other error; the response carries the error, and a response built
\* from an error never has exit reason OK.
C23_ExitReasonMapping ==
    /\ \A err \in Errors :
          /\ errorToRPCResponse(err).exit = ExitReasonOf(err.kind)
          /\ errorToRPCResponse(err).err = err
    /\ \A h \in Streams : \A i \in 1..Len(sendCh[h]) :
          IsErr(sendCh[h][i].err)
             => /\ sendCh[h][i].exit = ExitReasonOf(sendCh[h][i].err.kind)
                /\ sendCh[h][i].exit # "OK"

\* C23, witness: a response built from ErrReceiverMismatch and one built
\* from ErrDuplicateConnection are on the send channels
C23_Witness ==
    /\ sendCh[1] = <<errorToRPCResponse(ErrReceiverMismatch(serverID, "s1"))>>
    /\ sendCh[1][1].exit = "CAPTURE_ID_MISMATCH"
    /\ sendCh[2] = <<errorToRPCResponse(ErrDuplicateConnection(1))>>
    /\ sendCh[2][1].exit = "UNKNOWN"


\* the first packet of a stream is one the claim calls invalid
InvalidMeta(pm) == pm.nil \/ pm.receiver # serverID

\* C30: a stream whose first packet has a nil StreamMeta or names another
\* receiver is rejected before anything else: one error response is sent on
\* the stream (UNKNOWN with ErrIllegalMeta for a nil Meta,
\* CAPTURE_ID_MISMATCH with ErrReceiverMismatch for a wrong receiver), the
\* call returns, no task is enqueued and no peer is registered.
C30_InvalidMetaRejected ==
    [][\A h \in Streams, pm \in PacketMetas :
          (SendMessage(h, pm) /\ InvalidMeta(pm))
             => /\ Len(streamSent'[h]) = 1
                /\ streamSent'[h][1].exit =
                      (IF pm.nil THEN "UNKNOWN" ELSE "CAPTURE_ID_MISMATCH")
                /\ streamSent'[h][1].err.kind =
                      (IF pm.nil THEN "IllegalMeta" ELSE "ReceiverMismatch")
                /\ stPc'[h] = "returned"
                /\ UNCHANGED <<taskQueue, peers, peerObj, pending, acks, sendCh>>]_vars

\* C30, witness: one stream was rejected for a nil Meta, one for a wrong
\* receiver, and a third one was accepted and registered
C30_Witness ==
    /\ stPc[1] = "returned" /\ streamSent[1][1].exit = "UNKNOWN"
    /\ stPc[2] = "returned" /\ streamSent[2][1].exit = "CAPTURE_ID_MISMATCH"
    /\ stPc[3] = "recv" /\ peers["p1"] = 3
    /\ taskQueue = <<>>


\* the waiting caller leaves its select while closeCh is closed and its done
\* channel is not
ReturnsOnClose ==
    /\ syncPc \in {"waitAdd", "waitRemove"}
    /\ closeCh = "closed"
    /\ ~SyncDoneClosed
    /\ syncPc' = "returned"

\* C21 as stated: when Run returns, isRunning is 0 and closeCh is closed, and
\* a caller of SyncAddHandler or SyncRemoveHandler that waits for its done
\* channel stops waiting and returns ErrServerClosed.
C21_WaitersGetServerClosed ==
    [][/\ RunReturns => (isRunning' = 0 /\ closeCh' = "closed")
       /\ ReturnsOnClose => syncErr' = ErrServerClosed]_vars

\* C21, amended: when Run returns, isRunning is 0 and closeCh is closed, and
\* a waiting caller stops waiting: SyncAddHandler returns ErrServerClosed,
\* SyncRemoveHandler returns nil.
C21_WaitersReturn ==
    /\ [][/\ RunReturns => (isRunning' = 0 /\ closeCh' = "closed")
          /\ ReturnsOnClose =>
                syncErr' = (IF syncPc = "waitAdd" THEN ErrServerClosed ELSE NoErr)]_vars
    /\ (closeCh = "closed" /\ syncPc \in {"waitAdd", "waitRemove"})
          ~> (syncPc = "returned")

\* C21, witness: Run has returned and SyncAddHandler came back with
\* ErrServerClosed while its handler was never registered
C21_Witness ==
    /\ closeCh = "closed" /\ isRunning = 0
    /\ syncPc = "returned" /\ syncErr = ErrServerClosed
    /\ addDone[1] = "open" /\ handlers["t1"] = 0


\* a task of the queue is a batch of local entries
LocalBatch(task) == task.type = "OnMessageBatch" /\ task.meta = NoMeta

\* the raw entries of a batch that belong to a topic
RECURSIVE RawOfTopic(_, _)
RawOfTopic(entries, topic) ==
    IF entries = <<>> THEN <<>>
    ELSE IF Head(entries).entry.topic = topic
    THEN <<Head(entries)>> \o RawOfTopic(Tail(entries), topic)
    ELSE RawOfTopic(Tail(entries), topic)

\* the last n elements of a sequence
LastOf(seq, n) == SubSeq(seq, Len(seq) - n + 1, Len(seq))

\* run processes a batch of local entries in this step
ProcessesLocalBatch ==
    /\ Alive
    /\ taskQueue # <<>>
    /\ LocalBatch(Head(taskQueue))
    /\ taskQueue' = Tail(taskQueue)

\* C27: when the buffer of local messages of a topic without a handler
\* reaches MaxPendingMessageCountPerTopic, only the buffer of
\* (topic, serverID) is dropped: the registry, the peer objects, the buffers
\* of other keys and the ack table are unchanged, no response is sent to any
\* peer, and run goes on.
C27_LocalOverflowDropsOnlyOwnBuffer ==
    [][\A t \in Topics :
          LET key == <<t, serverID>>
              all == pending[key] \o RawOfTopic(Head(taskQueue).rawMessageEntries, t)
          IN
          (/\ ProcessesLocalBatch
           /\ handlers[t] = 0
           /\ Len(all) >= config.MaxPendingMessageCountPerTopic)
             => /\ pending'[key] =
                      LastOf(all, Len(all) % config.MaxPendingMessageCountPerTopic)
                /\ \A k \in Topics \X Nodes : pending'[k] = pending[k]
                /\ \A u \in Topics \ {t} :
                      RawOfTopic(Head(taskQueue).rawMessageEntries, u) = <<>>
                         => pending'[<<u, serverID>>] = pending[<<u, serverID>>]
                /\ UNCHANGED <<peers, peerObj, handlers, acks, sendCh, streamSent,
                               running, fault>>]_vars

\* C27, witness: two local entries were read and processed without any
\* handler, none is buffered any more, and the registered peer p1 still has
\* its own message buffered
C27_Witness ==
    /\ nLocal = 2 /\ batchRawMessages = <<>> /\ taskQueue = <<>>
    /\ nextHandle = 1
    /\ \A t \in Topics : pending[<<t, serverID>>] = <<>>
    /\ peers["p1"] = 1 /\ peerObj[1] = "valid"
    /\ pending[<<"t1", "p1">>] # <<>>

\* the values of the local entries that are scheduled and not yet processed,
\* in the order of the queue
RECURSIVE ScheduledLocal(_)
ScheduledLocal(queue) ==
    IF queue = <<>> THEN <<>>
    ELSE (IF LocalBatch(Head(queue)) THEN Head(queue).rawMessageEntries ELSE <<>>)
         \o ScheduledLocal(Tail(queue))

\* C28: every batch the local receive loop schedules is non-empty and has at
\* most LocalBatchMax (1024 in the code) raw entries; the entries scheduled
\* and the entries of the batch being filled are the entries last read,
\* each once, in the order they were read; once the local channel is closed
\* and the loop has seen it, the loop has ended with ErrServerClosed.
C28_LocalBatches ==
    /\ \A i \in 1..Len(taskQueue) :
          LocalBatch(taskQueue[i])
             => /\ taskQueue[i].rawMessageEntries # <<>>
                /\ Len(taskQueue[i].rawMessageEntries) <= LocalBatchMax
                /\ taskQueue[i].entries = <<>>
    /\ Len(batchRawMessages) <= LocalBatchMax
    /\ LET all == ScheduledLocal(taskQueue) \o batchRawMessages IN
       \A i \in 1..Len(all) : all[i].entry.seq = nLocal - Len(all) + i
    /\ localPc = "returned" <=> IsErr(localErr)
    /\ localPc = "returned" => (localCh = "closed" /\ localErr = ErrServerClosed)

\* C28, witness: a batch flushed at the limit and a batch flushed by the
\* ticker are on the queue, and the loop has ended on the closed channel
C28_Witness ==
    /\ Len(taskQueue) = 2
    /\ LocalBatch(taskQueue[1]) /\ Len(taskQueue[1].rawMessageEntries) = LocalBatchMax
    /\ LocalBatch(taskQueue[2]) /\ Len(taskQueue[2].rawMessageEntries) = 1
    /\ localPc = "returned"

\* the wrapper of a handle takes a local event in this step
WrapsLocalEvent(hd) ==
    /\ HandleActive(hd)
    /\ hPc[hd] = "idle"
    /\ hQueue[hd] # <<>>
    /\ Head(hQueue[hd]).meta = NoMeta
    /\ hQueue'[hd] = Tail(hQueue[hd]) \/ hStatus'[hd] = "failed"

\* C29: the dispatch of local messages never modifies the ack table or the
\* peer registry: run hands the entries of a local batch to the handler and
\* ignores an error of AddEvent (the entry is dropped, nothing is buffered
\* and run goes on), and the wrapper calls the callback once with the
\* server's own ID, without a sequence check and without an ack.
C29_LocalDispatchLeavesAcksAndPeers ==
    [][/\ ProcessesLocalBatch
          => /\ UNCHANGED <<acks, peers, peerObj, sendCh, handlers, running, fault>>
             /\ \A t \in Topics :
                   (handlers[t] # 0 /\ hStatus[handlers[t]] # "running")
                      => /\ pending'[<<t, serverID>>] = pending[<<t, serverID>>]
                         /\ hQueue'[handlers[t]] = hQueue[handlers[t]]
       /\ \A hd \in Handles :
             WrapsLocalEvent(hd)
                => /\ UNCHANGED <<acks, peers, peerObj, sendCh, repeated>>
                   /\ cbInvoked'[serverID][hTopic[hd]] = cbInvoked[serverID][hTopic[hd]] + 1
                   /\ \A n \in Nodes : cbInvoked'[n] = cbInvoked[n]]_vars

\* C29, witness: the callback of t1 took a local message and a message of
\* p1, only the latter is acknowledged, and a local batch was dropped at a
\* handle that had failed
C29_Witness ==
    /\ cbOk[serverID]["t1"] # {}
    /\ cbOk["p1"]["t1"] = {1} /\ acks["p1"]["t1"] = 1
    /\ peers["p1"] = 1
    /\ hStatus[1] = "failed" /\ handlers["t1"] = 1
    /\ nLocal = MaxLocal /\ batchRawMessages = <<>>
    /\ \A i \in 1..Len(taskQueue) : ~LocalBatch(taskQueue[i])
    /\ hQueue[1] = <<>>

\* C35: abort is never invoked on a peer object that is not valid (the panic
\* "aborting invalid peer" is unreachable), and a peer object that was
\* aborted is not in the registry, where every abort target is taken from,
\* so it is aborted at most once.
C35_AbortOnlyValidPeers ==
    /\ fault # "aborting invalid peer"
    /\ \A h \in Streams :
          peerObj[h] = "invalid" => \A n \in Nodes : peers[n] # h

\* C35, witness: the peer object of stream 1 was aborted, its sender is
\* registered again through stream 2, and nothing has panicked
C35_Witness ==
    /\ peerObj[1] = "invalid" /\ PeerID(1) = "p1"
    /\ peers["p1"] = 2 /\ peerObj[2] = "valid"
    /\ fault = "none"

\* the handler of a handle exits with an error in this step
HandlerExits(hd) == hStatus[hd] # "failed" /\ hStatus'[hd] = "failed"

\* C33: whenever a topic handler exits with an error, a taskOnDeregisterHandler
\* for its topic is put on the task queue, also when the queue is at capacity
\* at that moment, and the handler is eventually removed from the handler
\* table.
C33_ExitSchedulesDeregister ==
    /\ [][\A hd \in Handles :
            HandlerExits(hd)
               => \E i \in 1..Len(taskQueue') :
                     /\ taskQueue'[i].type = "OnDeregisterHandler"
                     /\ taskQueue'[i].topic = hTopic[hd]]_vars
    /\ \A hd \in Handles :
          (hStatus[hd] = "failed") ~> (\A t \in Topics : handlers[t] # hd)

\* the wrapper of a handle returns the error of unmarshalMessage or of the
\* callback in this step
CallFails(hd) ==
    /\ hPc[hd] = "checked"
    /\ hStatus'[hd] = "failed"
    /\ hErr'[hd] \in {ErrDecode, ErrCallback}

\* C34: when decoding fails or the callback returns an error for a message,
\* that event leaves the ack table unchanged, and an ack with sequence s is
\* recorded or sent only when the callback has returned success for s.
C34_FailedDeliveryNotAcked ==
    /\ [][\A hd \in Handles : CallFails(hd) => acks' = acks]_vars
    /\ [](\A n \in Nodes, t \in Topics :
             acks[n][t] # initAck => acks[n][t] \in cbOk[n][t])
    /\ [](\A h \in Streams : \A a \in SentAcks(h) : a.seq \in cbOk[PeerID(h)][a.topic])

\* C34, witness: the callback failed once and no sequence has been delivered
\* with success; the ack table is still empty although sequence 1 was sent
C34_Witness ==
    /\ \E hd \in Handles : hStatus[hd] = "failed" /\ hErr[hd] = ErrCallback
    /\ cbInvoked["p1"]["t1"] = 1 /\ cbOk["p1"]["t1"] = {}
    /\ acks["p1"]["t1"] = initAck
    /\ \A h \in Streams : SentAcks(h) = {}

\* run processes the self-deregistration task of an exited handler in this
\* step: a taskOnDeregisterHandler without a done channel
ProcessesExitTask ==
    /\ Alive
    /\ taskQueue # <<>>
    /\ Head(taskQueue).type = "OnDeregisterHandler"
    /\ Head(taskQueue).done = 0
    /\ taskQueue' = Tail(taskQueue)

\* C36: the self-deregistration task of an exited handler removes only the
\* handler that exited: a handler that is registered for the topic when the
\* task is processed, and has not exited, stays registered.
C36_ExitTaskRemovesOnlyExited ==
    [][ProcessesExitTask
          => LET hd == handlers[Head(taskQueue).topic] IN
             (hd # 0 /\ hStatus[hd] # "failed")
                => handlers'[Head(taskQueue).topic] = hd]_vars

\* an entry with this sequence is buffered, queued at a handle or being
\* handled
Dispatched(seq) ==
    \/ \E k \in Topics \X Nodes : \E i \in 1..Len(pending[k]) : pending[k][i].entry.seq = seq
    \/ \E hd \in Handles : \E i \in 1..Len(hQueue[hd]) : hQueue[hd][i].entry.seq = seq
    \/ \E hd \in Handles : hCur[hd].entry.seq = seq

\* C37: only the messages of the stream that is registered for a sender are
\* dispatched: the batches of a stream whose registration was rejected, as
\* stale or as a duplicate of the registered epoch, reach no handler and no
\* pending buffer. Under SpecDup sequence 2 is sent on stream 2 only.
C37_RejectedStreamNotDispatched ==
    peerObj[2] = "none" => ~Dispatched(2)

\* C38: a registered peer whose stream handle has been closed is eventually
\* removed from the registry by a tick of the running server, whether or not
\* the ack table holds an entry for the peer.
C38_ClosedPeerRemoved ==
    \A h \in Streams :
       (Alive /\ PeerID(h) \in Nodes /\ peers[PeerID(h)] = h /\ isClosed[h])
          ~> (\A n \in Nodes : peers[n] # h)

\* the wrapper of handle hd takes the event at the head of its queue
WrapperTakes(hd) ==
    /\ HandleActive(hd)
    /\ hPc[hd] = "idle"
    /\ hQueue[hd] # <<>>
    /\ hQueue'[hd] = Tail(hQueue[hd]) \/ hStatus'[hd] = "failed"

\* C39: deregistering a peer and registering it again, with any epoch, leave
\* the ack table unchanged; whatever stream a message came on, a sequence at
\* most the recorded lastAck is dropped as a duplicate without a callback, and
\* a sequence above lastAck + 1 ends the handler with ErrDataLost.
C39_AcksSurviveReconnect ==
    /\ [][(peers' # peers \/ peerObj' # peerObj) => acks' = acks]_vars
    /\ [][\A hd \in Handles : WrapperTakes(hd) =>
            LET ev == Head(hQueue[hd])
                lastAck == acks[ev.meta.sender][ev.entry.topic]
            IN
            /\ ev.entry.seq <= lastAck =>
                  /\ repeated' = repeated + 1
                  /\ hPc'[hd] = "idle"
                  /\ hStatus'[hd] = hStatus[hd]
                  /\ cbInvoked' = cbInvoked
            /\ (lastAck # initAck /\ ev.entry.seq > lastAck + 1) =>
                  /\ hStatus'[hd] = "failed"
                  /\ hErr'[hd] = ErrDataLost(ev.entry.topic, lastAck + 1)]_vars

\* the sender is registered again on its second stream after message 1 was
\* acknowledged on the first, and a message of the second stream was dropped
\* as a duplicate
C39_Witness ==
    /\ peers["p1"] = 2
    /\ peerObj[1] = "invalid"
    /\ acks["p1"]["t1"] = 1
    /\ repeated = 1
    /\ cbInvoked["p1"]["t1"] = 1

\* the done channel d is closed in this step
DoneCloses(d) == doneCh[d] = "open" /\ doneCh'[d] = "closed"

\* the done channel of a RemoveHandler is closed only when the handler it
\* removed has left the table, or the topic had no handler; and a handler
\* added after SyncRemoveHandler returned is never a duplicate
RemovedBeforeDone ==
    /\ [][\A d \in Dones : DoneCloses(d) =>
            \/ \E hd \in Handles : hDone[hd] = d /\ handlers[hTopic[hd]] # hd
            \/ /\ Takes("OnDeregisterHandler")
               /\ Head(taskQueue).done = d
               /\ handlers[Head(taskQueue).topic] = 0]_vars
    /\ [](fault # "duplicate handlers")

\* run takes a batch of a registered sender for a topic whose handler has
\* been removed and that has no handler yet
BuffersBatch ==
    /\ Takes("OnMessageBatch")
    /\ Current(Head(taskQueue).meta)
    /\ \A i \in 1..Len(Head(taskQueue).entries) :
          /\ handlers[Head(taskQueue).entries[i].topic] = 0
          /\ \E hd \in Handles :
                /\ hTopic[hd] = Head(taskQueue).entries[i].topic
                /\ hStatus[hd] \in {"draining", "stopped"}

\* C40, as stated: the done signal of RemoveHandler is closed only after the
\* topic has left the handler table, so a handler added after
\* SyncRemoveHandler returned is never a duplicate; a message arriving while
\* the topic has no handler is held in the pending buffer, and what the
\* buffer holds is submitted to the new handler in order.
C40_HeldAndDelivered ==
    /\ RemovedBeforeDone
    /\ [][BuffersBatch =>
            LET task == Head(taskQueue)
                key == <<task.entries[1].topic, task.meta.sender>>
            IN pending'[key] = pending[key] \o BatchEvents(task.meta, task.entries)]_vars
    /\ [][RegistersHandler
            => \A n \in Nodes :
                  /\ EventsOf(hQueue'[Head(taskQueue).hd], n)
                        = pending[<<Head(taskQueue).topic, n>>]
                  /\ pending'[<<Head(taskQueue).topic, n>>] = <<>>]_vars

\* C40, amended: the same for the done signal and the duplicate; a message
\* arriving while the topic has no handler is appended to the pending buffer
\* of its (topic, sender) unless the buffer already holds more than
\* MaxPendingMessageCountPerTopic entries, in which case the buffer is
\* dropped and the sender deregistered; when the new handler is registered
\* the buffered entries of senders still registered with the same epoch are
\* submitted to it in the order they were buffered and the others are dropped.
C40_HeldWithinBoundAndDelivered ==
    /\ RemovedBeforeDone
    /\ [][BuffersBatch =>
            LET task == Head(taskQueue)
                key == <<task.entries[1].topic, task.meta.sender>>
            IN IF Len(pending[key]) > config.MaxPendingMessageCountPerTopic
               THEN /\ pending'[key] = <<>>
                    /\ peers'[task.meta.sender] = 0
               ELSE /\ pending'[key] = pending[key] \o BatchEvents(task.meta, task.entries)
                    /\ peers' = peers]_vars
    /\ [][RegistersHandler
            => \A n \in Nodes :
                  /\ EventsOf(hQueue'[Head(taskQueue).hd], n)
                        = SelectSeq(pending[<<Head(taskQueue).topic, n>>],
                                    LAMBDA ev : Current(ev.meta))
                  /\ pending'[<<Head(taskQueue).topic, n>>] = <<>>]_vars

\* SyncRemoveHandler returned on the done signal, the second handler is
\* registered and holds the two messages that arrived in between, in order
C40_Witness ==
    /\ syncPc = "returned"
    /\ syncErr = NoErr
    /\ closeCh = "open"
    /\ hStatus[1] = "stopped"
    /\ handlers["t1"] = 2
    /\ fault = "none"
    /\ pending[<<"t1", "p1">>] = <<>>
    /\ Len(hQueue[2]) = 2
    /\ hQueue[2][1].entry.seq + 1 = hQueue[2][2].entry.seq

\* C31: when the receive task of a stream has ended, the stream handle is
\* closed; the send goroutine of a stream whose context is live exits only
\* on finding the send channel closed and empty, and then cancels the
\* stream's context; and the handler of the stream eventually returns.
C31_ReceiveEndReturnsHandler ==
    /\ [](\A h \in Streams : stPc[h] = "closed" => isClosed[h])
    /\ [][\A h \in Streams :
            (sendPc[h] = "run" /\ sendPc'[h] = "exited" /\ streamCtx[h] = "live")
               => /\ isClosed[h]
                  /\ sendCh[h] = <<>>
                  /\ streamCtx'[h] = "cancelled"]_vars
    /\ \A h \in Streams : (stPc[h] = "closed" /\ rpcPc[h] = "called") ~> Returned(h)

\* the receive task ended, the send goroutine wrote what was left, found the
\* channel closed and cancelled, and the handler returned
C31_Witness ==
    /\ stPc[1] = "closed"
    /\ isClosed[1]
    /\ sendPc[1] = "exited"
    /\ sendCh[1] = <<>>
    /\ streamCtx[1] = "cancelled"
    /\ rpcPc[1] = "returned"
    /\ closeCh = "open"
    /\ running

\* C32: once run has returned (the root context is cancelled) or the close
\* channel is closed, every SendMessage handler in progress eventually
\* returns, whatever its goroutines do.
C32_HandlersReturnOnClose ==
    \A h \in Streams :
       ((~running \/ closeCh = "closed") /\ rpcPc[h] = "called") ~> Returned(h)

====
